---- MODULE Spec2Model ----
(***************************************************************************)
(* Selection engine of the repomix file tree (src/src/fileTree.ts, second  *)
(* revision of FileTreeProvider, lines 835-1882), its FileTreeCache        *)
(* (src/src/cache/FileTreeCache.ts) and the RepomixConfigUtil verdicts     *)
(* (src/src/repomixConfig.ts).                                             *)
(*                                                                         *)
(* The model covers the production branch of the provider                  *)
(* (isTestEnvironment = false).  A path is the sequence of names below the *)
(* workspace root; the root itself is <<>>.                                *)
(***************************************************************************)
EXTENDS Integers, Sequences, FiniteSets, TLC

\* ---------------------------------------------------------------- bounds
MaxOps == 3
MaxDeepOps == 5
MaxGuardOps == 2
MaxFairOps == 1
MaxTicks == 1
TargetDepth == 3
\* longest path (in names) the file system resolves
MaxPathLen == 6
\* the guard on visitedPaths.size of the propagations (50 in the source),
\* scaled down so that a small directory structure exceeds it
MaxVisited == 3
\* operations of a session that starts with a stored profile
MaxSessionOps == 2
\* deepest element (in names) a view update is requested for
MaxElementDepth == 1
\* operations of a session on a workspace with an unreadable directory
MaxFaultOps == 3

MaxProfileOps == 4

MaxOverlapOps == 3

MaxDebounceOps == 3

MaxFilterOps == 2

MaxListingOps == 4

MaxInflightOps == 4

MaxConcurrentOps == 3

MaxDebounceNow == 40

\* ------------------------------------------------------ program constants
cacheExpirationMs == 60000

debounceMs == 50
DefaultMaxFileSize == 50000000

\* ------------------------------------------------------- generic helpers
Put(f, k, v) == [x \in (DOMAIN f) \cup {k} |-> IF x = k THEN v ELSE f[x]]

Drop(f, S) == [x \in (DOMAIN f) \ S |-> f[x]]

EmptyMap == [x \in {} |-> TRUE]

Front(s) == SubSeq(s, 1, Len(s) - 1)

Last(s) == s[Len(s)]

\* the element of a one-element set; {F(x) : x \in {v}} applies F to the
\* value of v, v being evaluated once
The(S) == CHOOSE y \in S : TRUE

StartsWith(s, pre) == Len(pre) <= Len(s) /\ SubSeq(s, 1, Len(pre)) = pre

\* ------------------------------------------------- names and their text
Chars(n) ==
  CASE n = "src"       -> <<"s","r","c">>
    [] n = "src2"      -> <<"s","r","c","2">>
    [] n = "docs"      -> <<"d","o","c","s">>
    [] n = "a.ts"      -> <<"a",".","t","s">>
    [] n = "a.js"      -> <<"a",".","j","s">>
    [] n = "readme.md" -> <<"r","e","a","d","m","e",".","m","d">>
    [] n = "lib"       -> <<"l","i","b">>
    [] n = "ok.ts"     -> <<"o","k",".","t","s">>
    [] n = "skip.ts"   -> <<"s","k","i","p",".","t","s">>
    [] n = "big.ts"    -> <<"b","i","g",".","t","s">>
    [] n = "gen"       -> <<"g","e","n">>
    [] n = "g.ts"      -> <<"g",".","t","s">>
    [] n = "pkg"       -> <<"p","k","g">>
    [] n = "m.ts"      -> <<"m",".","t","s">>
    [] n = "sub"       -> <<"s","u","b">>
    [] n = "n.ts"      -> <<"n",".","t","s">>
    [] n = "o.js"      -> <<"o",".","j","s">>
    [] n = "M.TS"      -> <<"M",".","T","S">>
    [] n = "fat"       -> <<"f","a","t">>
    [] n = "a"         -> <<"a">>
    [] n = "up"        -> <<"u","p">>
    [] n = "b"         -> <<"b">>
    [] n = "f.ts"      -> <<"f",".","t","s">>
    [] n = "top"       -> <<"t","o","p">>
    [] n = "d1"        -> <<"d","1">>
    [] n = "d2"        -> <<"d","2">>
    [] n = "d3"        -> <<"d","3">>
    [] n = "d4"        -> <<"d","4">>
    [] n = "d5"        -> <<"d","5">>
    [] n = "d6"        -> <<"d","6">>
    [] n = ""          -> <<>>
    [] n = "*.ts"      -> <<"*",".","t","s">>
    [] n = "*.js"      -> <<"*",".","j","s">>
    [] n = "pkg/s"     -> <<"p","k","g","/","s">>
    [] n = "*.T*"      -> <<"*",".","T","*">>

RECURSIVE RelativePath(_)
RelativePath(p) ==
  IF p = <<>> THEN <<>>
  ELSE IF Len(p) = 1 THEN Chars(p[1])
  ELSE RelativePath(Front(p)) \o <<"/">> \o Chars(Last(p))

\* --------------------------------------------------------- file systems
\* A file system gives, per directory name, the entries readDirectory
\* returns (in order); a name that heads no listing is a file.  `ignore`
\* is the rule set (literal patterns, written as paths), `size` the byte
\* size of each file, `maxFileSize` the configured limit (0: not set),
\* `denied` the directories whose readDirectory fails (access refused, or
\* the directory is gone).
FsBasic ==
  [root |-> <<"src", "docs">>,
   dirs |-> ("src" :> <<"a.ts", "a.js">>) @@ ("docs" :> <<"readme.md">>),
   ignore |-> {},
   size |-> ("a.ts" :> 10) @@ ("a.js" :> 10) @@ ("readme.md" :> 10),
   maxFileSize |-> 0,
   denied |-> {}]

FsElig ==
  [root |-> <<"lib">>,
   dirs |-> ("lib" :> <<"ok.ts", "skip.ts", "big.ts", "gen">>) @@ ("gen" :> <<"g.ts">>),
   ignore |-> {<<"lib", "skip.ts">>, <<"lib", "gen">>},
   size |-> ("ok.ts" :> 50000000) @@ ("skip.ts" :> 10) @@ ("big.ts" :> 50000001)
            @@ ("g.ts" :> 10),
   maxFileSize |-> 0,
   denied |-> {}]

FsNest ==
  [root |-> <<"pkg">>,
   dirs |-> ("pkg" :> <<"m.ts", "sub">>) @@ ("sub" :> <<"n.ts", "o.js">>),
   ignore |-> {},
   size |-> ("m.ts" :> 10) @@ ("n.ts" :> 10) @@ ("o.js" :> 10),
   maxFileSize |-> 0,
   denied |-> {}]

FsHollow ==
  [root |-> <<"pkg">>,
   dirs |-> ("pkg" :> <<"M.TS", "fat">>) @@ ("fat" :> <<"big.ts">>),
   ignore |-> {},
   size |-> ("M.TS" :> 20) @@ ("big.ts" :> 21),
   maxFileSize |-> 20,
   denied |-> {}]

\* "up" lists the root again: a directory reachable from itself
FsCycle ==
  [root |-> <<"a", "b">>,
   dirs |-> ("a" :> <<"up">>) @@ ("up" :> <<"a", "b">>) @@ ("b" :> <<"f.ts">>),
   ignore |-> {},
   size |-> ("f.ts" :> 10),
   maxFileSize |-> 0,
   denied |-> {}]

\* an acyclic structure with more directories than the guard admits:
\* "top" holds MaxVisited + 1 directories of one file each
WideNames == <<"d1", "d2", "d3", "d4", "d5", "d6">>

FsWide ==
  [root |-> <<"top">>,
   dirs |-> ("top" :> SubSeq(WideNames, 1, MaxVisited + 1))
            @@ [n \in {WideNames[i] : i \in 1..(MaxVisited + 1)} |-> <<"f.ts">>],
   ignore |-> {},
   size |-> ("f.ts" :> 10),
   maxFileSize |-> 0,
   denied |-> {}]

\* "gen" cannot be read and lies before a directory that can; "fat" was
\* listed once and has been removed since
FsDenied ==
  [root |-> <<"pkg">>,
   dirs |-> ("pkg" :> <<"m.ts", "gen", "sub">>) @@ ("gen" :> <<"g.ts">>)
            @@ ("sub" :> <<"n.ts", "o.js">>) @@ ("fat" :> <<>>),
   ignore |-> {},
   size |-> ("m.ts" :> 10) @@ ("g.ts" :> 10) @@ ("n.ts" :> 10) @@ ("o.js" :> 10),
   maxFileSize |-> 0,
   denied |-> {"gen", "fat"}]

IsDirectory(w, p) == IF p = <<>> THEN TRUE ELSE Last(p) \in DOMAIN w.dirs

IsDenied(w, p) == IF p = <<>> THEN FALSE ELSE Last(p) \in w.denied

\* vscode.workspace.fs.readDirectory: throws on a path the file system
\* cannot resolve (longer than the path limit), on a non-directory and on
\* a directory it is refused access to or does not find
ReadFails(w, p) == Len(p) > MaxPathLen \/ ~IsDirectory(w, p) \/ IsDenied(w, p)

ReadDir(w, p) == IF p = <<>> THEN w.root ELSE w.dirs[Last(p)]

\* the paths readDirectory yields from p down, k levels deep
RECURSIVE PathsBelow(_, _, _)
PathsBelow(w, p, k) ==
  {p} \cup
  IF k = 0 \/ ReadFails(w, p) THEN {}
  ELSE UNION {PathsBelow(w, Append(p, ReadDir(w, p)[i]), k - 1) :
                i \in 1..Len(ReadDir(w, p))}

\* ------------------------------------------------------ ignore patterns
\* a text is the sequence of its characters

\* String.prototype.replace with a global pattern: every occurrence of
\* `from` in s from position i on, left to right, becomes `to`
RECURSIVE ReplaceAll(_, _, _, _)
ReplaceAll(s, i, from, to) ==
  IF i > Len(s) THEN <<>>
  ELSE IF i + Len(from) - 1 <= Len(s) /\ SubSeq(s, i, i + Len(from) - 1) = from
       THEN to \o ReplaceAll(s, i + Len(from), from, to)
       ELSE <<s[i]>> \o ReplaceAll(s, i + 1, from, to)

\* the source of the regular expression matchesPattern builds: the five
\* replacements, each applied to the result of the one before
regexPattern(pattern) ==
  LET r1 == ReplaceAll(pattern, 1, <<"*", "*">>, <<".", "*">>)
      r2 == ReplaceAll(r1, 1, <<"*">>, <<"[", "^", "/", "]", "*">>)
      r3 == ReplaceAll(r2, 1, <<"?">>, <<"[", "^", "/", "]">>)
      r4 == ReplaceAll(r3, 1, <<".">>, <<"\\", ".">>)
  IN  ReplaceAll(r4, 1, <<"/">>, <<"[", "/", "\\", "\\", "]">>)

\* new RegExp(source): the characters of a class from position k on, up to
\* the first "]" that is not escaped
RECURSIVE ClassAt(_, _, _)
ClassAt(re, k, acc) ==
  IF re[k] = "]" THEN [set |-> acc, next |-> k + 1]
  ELSE IF re[k] = "\\" THEN ClassAt(re, k + 2, acc \cup {re[k + 1]})
  ELSE ClassAt(re, k + 1, acc \cup {re[k]})

\* the atom at position i: an escaped character, a class, the dot or a
\* literal character (a "]" outside a class is a literal)
AtomAt(re, i) ==
  IF re[i] = "\\" THEN [neg |-> FALSE, set |-> {re[i + 1]}, next |-> i + 2]
  ELSE IF re[i] = "["
       THEN LET neg == re[i + 1] = "^"
                c   == ClassAt(re, IF neg THEN i + 2 ELSE i + 1, {})
            IN  [neg |-> neg, set |-> c.set, next |-> c.next]
  ELSE IF re[i] = "." THEN [neg |-> TRUE, set |-> {}, next |-> i + 1]
  ELSE [neg |-> FALSE, set |-> {re[i]}, next |-> i + 1]

\* the atoms of the expression, each with its "*" if one follows it
RECURSIVE ParseRegex(_, _)
ParseRegex(re, i) ==
  IF i > Len(re) THEN <<>>
  ELSE LET a    == AtomAt(re, i)
           star == a.next <= Len(re) /\ re[a.next] = "*"
       IN  <<[neg |-> a.neg, set |-> a.set, star |-> star]>>
             \o ParseRegex(re, IF star THEN a.next + 1 ELSE a.next)

\* regex.test(text) for an expression between ^ and $
RECURSIVE MatchAtoms(_, _, _, _)
MatchAtoms(atoms, i, text, j) ==
  IF i > Len(atoms) THEN j > Len(text)
  ELSE LET Ok(ch) == (ch \in atoms[i].set) # atoms[i].neg
       IN  IF atoms[i].star
           THEN \/ MatchAtoms(atoms, i + 1, text, j)
                \/ /\ j <= Len(text)
                   /\ Ok(text[j])
                   /\ MatchAtoms(atoms, i, text, j + 1)
           ELSE /\ j <= Len(text)
                /\ Ok(text[j])
                /\ MatchAtoms(atoms, i + 1, text, j + 1)

matchesPattern(filePath, pattern) ==
  LET normalizedPath == ReplaceAll(filePath, 1, <<"\\">>, <<"/">>)
  IN  MatchAtoms(ParseRegex(regexPattern(pattern), 1), 1, normalizedPath, 1)

\* ----------------------------------------------------- RepomixConfigUtil
matchesAnyPattern(filePath, patterns) ==
  \E pat \in patterns : matchesPattern(filePath, RelativePath(pat))

\* the paths of w on which matchesAnyPattern holds for the rules of w
IgnoredPaths(w) ==
  IF w.ignore = {} THEN {}
  ELSE {p \in PathsBelow(w, <<>>, MaxPathLen + 1) :
          matchesAnyPattern(RelativePath(p), w.ignore)}

\* the workspace with the verdicts of its rules, computed once for it
Workspace(w) == w @@ [ignored |-> IgnoredPaths(w)]

shouldIgnoreFile(w, p) == p \in w.ignored

\* config.maxFileSize || 50000000, cfg = [set, value] being the
\* maxFileSize entry of the configuration: a value that is undefined or 0
\* gives way to the default
maxSize(cfg) == IF cfg.set /\ cfg.value # 0 THEN cfg.value ELSE DefaultMaxFileSize

\* the body of isFileSizeValid on file = [exists, statOk, size]: false
\* when the file does not exist or stat throws, else stats.size <= maxSize
sizeWithinLimit(cfg, file) ==
  IF ~file.exists \/ ~file.statOk THEN FALSE ELSE file.size <= maxSize(cfg)

isFileSizeValid(w, p) ==
  LET exists == Last(p) \in DOMAIN w.size
  IN  /\ ~IsDirectory(w, p)
      /\ sizeWithinLimit([set |-> w.maxFileSize # 0, value |-> w.maxFileSize],
                         [exists |-> exists, statOk |-> TRUE,
                          size |-> IF exists THEN w.size[Last(p)] ELSE 0])

\* ---------------------------------------------------------- FileTreeCache
\* c = [dir |-> directoryStateCache, val |-> fileValidationCache]
EmptyCache == [dir |-> EmptyMap, val |-> EmptyMap]

\* getDirectoryState that still trusts an entry whose age is the window
getDirectoryState_Inclusive(c, p, t) ==
  IF p \in DOMAIN c.dir /\ t - c.dir[p].timestamp <= cacheExpirationMs
  THEN c.dir[p].state ELSE "undefined"

getDirectoryState(c, p, t) ==
  IF p \in DOMAIN c.dir /\ t - c.dir[p].timestamp < cacheExpirationMs
  THEN c.dir[p].state ELSE "undefined"

setDirectoryState(c, p, s, t) ==
  [c EXCEPT !.dir = Put(c.dir, p, [state |-> s, timestamp |-> t])]

HasFileValidation(c, p, t) ==
  p \in DOMAIN c.val /\ t - c.val[p].timestamp < cacheExpirationMs

getFileValidation(c, p) ==
  [shouldIgnore |-> c.val[p].shouldIgnore, isValidSize |-> c.val[p].isValidSize]

setFileValidation(c, p, ign, ok, t) ==
  [c EXCEPT !.val = Put(c.val, p, [shouldIgnore |-> ign, isValidSize |-> ok,
                                   timestamp |-> t])]

\* key.startsWith(dirPath) on the rendered strings.  No name contains "/",
\* so the text of k starts with the text of d exactly when k agrees with d on all
\* but d's last name and k's name at that position starts with d's last name.
KeyStartsWith(k, d) ==
  \/ d = <<>>
  \/ /\ Len(k) >= Len(d)
     /\ SubSeq(k, 1, Len(d) - 1) = Front(d)
     /\ StartsWith(Chars(k[Len(d)]), Chars(Last(d)))

invalidateDirectory(c, p) ==
  [dir |-> Drop(c.dir, {p} \cup {k \in DOMAIN c.dir : KeyStartsWith(k, p)}),
   val |-> Drop(c.val, {k \in DOMAIN c.val : KeyStartsWith(k, p)})]

RECURSIVE ParentChain(_)
ParentChain(p) == IF p = <<>> THEN {} ELSE {Front(p)} \cup ParentChain(Front(p))

invalidateParentDirectories(c, p) == [c EXCEPT !.dir = Drop(c.dir, ParentChain(p))]

\* s.lastIndexOf('/') + 1: the position of the last "/" of s, 0 if none
LastIndexOf(s) ==
  IF \E i \in 1..Len(s) : s[i] = "/"
  THEN CHOOSE i \in 1..Len(s) : s[i] = "/" /\ \A j \in (i + 1)..Len(s) : s[j] # "/"
  ELSE 0

\* vscode.Uri.file(fsPath.substring(0, fsPath.lastIndexOf('/'))).fsPath for
\* the separator sep of the platform: Uri.file turns the empty path into
\* the root, whose fsPath is the separator
parentFsPath(sep, s) ==
  IF SubSeq(s, 1, LastIndexOf(s) - 1) = <<>> THEN <<sep>>
  ELSE SubSeq(s, 1, LastIndexOf(s) - 1)

\* the loop of invalidateParentDirectories on the text of the fsPath, the
\* verdict cache keyed by that text: [dir, ended], `ended` false when the
\* loop is still running after `fuel` rounds
RECURSIVE walkParents(_, _, _, _, _)
walkParents(sep, dir, current, workspace, fuel) ==
  IF current = workspace THEN [dir |-> dir, ended |-> TRUE]
  ELSE IF parentFsPath(sep, current) = current THEN [dir |-> dir, ended |-> TRUE]
  ELSE IF fuel = 0 THEN [dir |-> dir, ended |-> FALSE]
  ELSE walkParents(sep, Drop(dir, {parentFsPath(sep, current)}),
                   parentFsPath(sep, current), workspace, fuel - 1)

\* cache.clear() left out
clear_Kept(c) == c

clear(c) == EmptyCache

cleanExpired(c, t) ==
  [dir |-> Drop(c.dir, {k \in DOMAIN c.dir :
                          t - c.dir[k].timestamp >= cacheExpirationMs}),
   val |-> Drop(c.val, {k \in DOMAIN c.val :
                          t - c.val[k].timestamp >= cacheExpirationMs})]

\* ------------------------------------------------------- search predicate
Lower(ch) ==
  CASE ch = "M" -> "m" [] ch = "T" -> "t" [] ch = "S" -> "s" [] OTHER -> ch

\* the compiled pattern: ".*" stands for the wildcard, every other element
\* is one (escaped, hence literal) character
convertSearchQueryToRegex(q) ==
  [i \in 1..Len(Chars(q)) |-> IF Chars(q)[i] = "*" THEN ".*" ELSE Chars(q)[i]]

RECURSIVE MatchFrom(_, _, _, _)
MatchFrom(re, ri, text, xi) ==
  IF ri > Len(re) THEN TRUE
  ELSE IF re[ri] = ".*"
       THEN \E j \in xi..(Len(text) + 1) : MatchFrom(re, ri + 1, text, j)
       ELSE /\ xi <= Len(text)
            /\ Lower(text[xi]) = Lower(re[ri])
            /\ MatchFrom(re, ri + 1, text, xi + 1)

\* RegExp.prototype.test with the 'i' flag: an unanchored search
RegexTest(re, text) == \E i \in 1..(Len(text) + 1) : MatchFrom(re, 1, text, i)

\* matchesSearchQuery testing the file name whatever the query
matchesSearchQuery_NameOnly(q, p) ==
  IF q = "" THEN TRUE
  ELSE RegexTest(convertSearchQueryToRegex(q), Chars(Last(p)))

matchesSearchQuery(q, p) ==
  IF q = "" THEN TRUE
  ELSE IF \E i \in 1..Len(Chars(q)) : Chars(q)[i] = "/"
       THEN RegexTest(convertSearchQueryToRegex(q), RelativePath(p))
       ELSE RegexTest(convertSearchQueryToRegex(q), Chars(Last(p)))

RECURSIVE directoryHasMatchingFiles(_, _, _)
RECURSIVE HasMatchingLoop(_, _, _, _)
HasMatchingLoop(w, q, p, i) ==
  IF i > Len(ReadDir(w, p)) THEN FALSE
  ELSE LET Entry(child) ==
             IF shouldIgnoreFile(w, child) THEN HasMatchingLoop(w, q, p, i + 1)
             ELSE IF ~IsDirectory(w, child)
                  THEN matchesSearchQuery(q, child) \/ HasMatchingLoop(w, q, p, i + 1)
                  ELSE directoryHasMatchingFiles(w, q, child)
                       \/ HasMatchingLoop(w, q, p, i + 1)
       IN  The({Entry(child) : child \in {Append(p, ReadDir(w, p)[i])}})

directoryHasMatchingFiles(w, q, p) ==
  IF ReadFails(w, p) THEN FALSE ELSE HasMatchingLoop(w, q, p, 1)

\* ------------------------------------------- getDirectorySelectionState
\* the validation step shared by the traversals: the cached verdict when a
\* fresh one exists, else the computed one, which is then cached
ValidateEntry(w, c, p, t) ==
  IF HasFileValidation(c, p, t)
  THEN [v |-> getFileValidation(c, p), c |-> c]
  ELSE LET ign == shouldIgnoreFile(w, p)
           ok  == IF ~ign /\ ~IsDirectory(w, p) THEN isFileSizeValid(w, p) ELSE TRUE
       IN  [v |-> [shouldIgnore |-> ign, isValidSize |-> ok],
            c |-> setFileValidation(c, p, ign, ok, t)]

\* AggregateLoop without the early return on a partial child
RECURSIVE AggregateLoop_NoPartial(_, _, _, _)
AggregateLoop_NoPartial(results, i, checkedCount, totalCount) ==
  IF i > Len(results)
  THEN IF checkedCount = 0 THEN "none"
       ELSE IF checkedCount = totalCount THEN "all" ELSE "partial"
  ELSE IF ~results[i].isValid
       THEN AggregateLoop_NoPartial(results, i + 1, checkedCount, totalCount)
       ELSE AggregateLoop_NoPartial(results, i + 1,
                                    IF results[i].isChecked THEN checkedCount + 1
                                    ELSE checkedCount,
                                    totalCount + 1)

\* the aggregation loop over the results, in entry order
RECURSIVE AggregateLoop(_, _, _, _)
AggregateLoop(results, i, checkedCount, totalCount) ==
  IF i > Len(results)
  THEN IF checkedCount = 0 THEN "none"
       ELSE IF checkedCount = totalCount THEN "all" ELSE "partial"
  ELSE IF ~results[i].isValid
       THEN AggregateLoop(results, i + 1, checkedCount, totalCount)
       ELSE IF results[i].isPartial THEN "partial"
            ELSE AggregateLoop(results, i + 1,
                               IF results[i].isChecked THEN checkedCount + 1
                               ELSE checkedCount,
                               totalCount + 1)

RECURSIVE getDirectorySelectionState(_, _, _, _, _)
RECURSIVE CheckEntries(_, _, _, _, _, _, _)
\* returns [results, c]: one result per entry, and the caches as filled
CheckEntries(w, ci, c, p, i, t, acc) ==
  IF i > Len(ReadDir(w, p)) THEN [results |-> acc, c |-> c]
  ELSE LET child == Append(p, ReadDir(w, p)[i])
           vr    == ValidateEntry(w, c, child, t)
       IN  IF ~vr.v.shouldIgnore /\ vr.v.isValidSize
           THEN IF IsDirectory(w, child)
                THEN LET sub == getDirectorySelectionState(w, ci, vr.c, child, t)
                     IN  CheckEntries(w, ci, sub.c, p, i + 1, t,
                            Append(acc, [isValid |-> TRUE,
                                         isChecked |-> sub.state = "all",
                                         isPartial |-> sub.state = "partial"]))
                ELSE CheckEntries(w, ci, vr.c, p, i + 1, t,
                       Append(acc, [isValid |-> TRUE,
                                    isChecked |-> (child \in DOMAIN ci /\ ci[child]),
                                    isPartial |-> FALSE]))
           ELSE CheckEntries(w, ci, vr.c, p, i + 1, t,
                  Append(acc, [isValid |-> FALSE, isChecked |-> FALSE,
                               isPartial |-> FALSE]))

\* returns [state, c]
getDirectorySelectionState(w, ci, c, p, t) ==
  IF getDirectoryState(c, p, t) # "undefined"
  THEN [state |-> getDirectoryState(c, p, t), c |-> c]
  ELSE IF ReadFails(w, p) THEN [state |-> "none", c |-> c]
  ELSE LET r   == CheckEntries(w, ci, c, p, 1, t, <<>>)
           res == AggregateLoop(r.results, 1, 0, 0)
       IN  [state |-> res, c |-> setDirectoryState(r.c, p, res, t)]

\* ------------------------------------------- identities and their paths
\* A store key is uri.toString(), a profile entry the fsPath of that uri:
\* the text of the workspace folder followed by "/" and the names.
Names ==
  {"src", "docs", "a.ts", "a.js", "readme.md", "lib", "ok.ts", "skip.ts",
   "big.ts", "gen", "g.ts", "pkg", "m.ts", "sub", "n.ts", "o.js", "M.TS",
   "fat", "a", "up", "b", "f.ts", "top", "d1", "d2", "d3", "d4", "d5", "d6"}

workspaceRoot == <<"/", "w">>

\* vscode.Uri.parse(key).fsPath
fsPath(p) ==
  IF p = <<>> THEN workspaceRoot ELSE workspaceRoot \o <<"/">> \o RelativePath(p)

\* the name each text stands for
NameTable == [cs \in {Chars(n) : n \in Names} |-> CHOOSE n \in Names : Chars(n) = cs]

NameOf(cs) == NameTable[cs]

\* the names of the text s from position i on, seg being the name read so far
RECURSIVE Segments(_, _, _)
Segments(s, i, seg) ==
  IF i > Len(s) THEN <<NameOf(seg)>>
  ELSE IF s[i] = "/" THEN <<NameOf(seg)>> \o Segments(s, i + 1, <<>>)
  ELSE Segments(s, i + 1, Append(seg, s[i]))

\* UriFile with the text folded to lower case first
UriFile_CaseFolded(s) ==
  IF s = workspaceRoot THEN <<>>
  ELSE Segments([i \in 1..Len(s) |-> Lower(s[i])], Len(workspaceRoot) + 2, <<>>)

\* vscode.Uri.file(path).toString(): the key of the identity at that path
UriFile(s) ==
  IF s = workspaceRoot THEN <<>>
  ELSE Segments(s, Len(workspaceRoot) + 2, <<>>)

\* getCheckedItems(): the fsPath of every key whose stored bit is true
getCheckedItems(ci) == {fsPath(k) : k \in {x \in DOMAIN ci : ci[x]}}

\* checkedPaths built from every key, whatever its bit
RECURSIVE checkedPaths_AllKeys(_, _)
checkedPaths_AllKeys(ci, keys) ==
  IF keys = {} THEN <<>>
  ELSE LET k == CHOOSE x \in keys : TRUE
       IN  <<fsPath(k)>> \o checkedPaths_AllKeys(ci, keys \ {k})

\* the array getCheckedItems() returns: the loop over the entries of the
\* store (keys: the entries still to visit) pushes the fsPath of each key
\* whose bit is true
RECURSIVE checkedPaths(_, _)
checkedPaths(ci, keys) ==
  IF keys = {} THEN <<>>
  ELSE LET k == CHOOSE x \in keys : TRUE
       IN  (IF ci[k] THEN <<fsPath(k)>> ELSE <<>>) \o checkedPaths(ci, keys \ {k})

\* setChecked that writes the bit to the ancestors of the path as well
setChecked_WithParents(r, s, checked) ==
  LET key == UriFile(s)
  IN  [ci |-> [x \in DOMAIN r.ci \cup {key} \cup (ParentChain(key) \ {<<>>}) |->
                 IF x = key \/ x \in ParentChain(key) THEN checked ELSE r.ci[x]],
       c  |-> invalidateParentDirectories(invalidateDirectory(r.c, key), key)]

\* setChecked(path, checked, fireEvent) up to its notification, on
\* r = [ci, c]
setChecked(r, s, checked) ==
  LET key == UriFile(s)
  IN  [ci |-> Put(r.ci, key, checked),
       c  |-> invalidateParentDirectories(invalidateDirectory(r.c, key), key)]

\* for (const path of profile.paths) setChecked(path, true, false)
RECURSIVE SetEach(_, _)
SetEach(r, paths) ==
  IF paths = {} THEN r
  ELSE LET s == CHOOSE x \in paths : TRUE
       IN  SetEach(setChecked(r, s, TRUE), paths \ {s})

\* uncheckAll() that resets every stored bit but the first it finds
uncheckAll_KeepsOne(ci) ==
  IF \E k \in DOMAIN ci : ci[k]
  THEN [k \in {CHOOSE x \in DOMAIN ci : ci[x]} |-> TRUE]
  ELSE EmptyMap

\* checkedItems.clear()
uncheckAll(ci) == EmptyMap

\* the load sequence without its uncheckAll()
loadSequence_NoUncheck(ci, c, paths) == SetEach([ci |-> ci, c |-> c], paths)

\* the load sequence of the loadProfile command: uncheckAll(), then
\* setChecked(path, true, false) for each path of the profile
loadSequence(ci, c, paths) == SetEach([ci |-> uncheckAll(ci), c |-> c], paths)

\* ------------------------------------------------------ ProfileManager
\* ps is the stored list of profiles, each [name, paths]
HasProfile_LastOnly(ps, name) == ps # <<>> /\ ps[Len(ps)].name = name

HasProfile(ps, name) == \E i \in 1..Len(ps) : ps[i].name = name

IndexOf(ps, name) ==
  CHOOSE i \in 1..Len(ps) :
    ps[i].name = name /\ \A j \in 1..(i - 1) : ps[j].name # name

saveProfile_AlwaysAppends(ps, name, paths) ==
  Append(ps, [name |-> name, paths |-> paths])

saveProfile(ps, name, paths) ==
  IF HasProfile(ps, name)
  THEN [ps EXCEPT ![IndexOf(ps, name)] = [name |-> name, paths |-> paths]]
  ELSE Append(ps, [name |-> name, paths |-> paths])

loadProfile(ps, name) == ps[IndexOf(ps, name)]

\* profiles.filter((profile) => profile.name !== name)
RECURSIVE WithoutName(_, _)
WithoutName(ps, name) ==
  IF ps = <<>> THEN <<>>
  ELSE IF Head(ps).name # name THEN <<Head(ps)>> \o WithoutName(Tail(ps), name)
  ELSE WithoutName(Tail(ps), name)

\* deleteProfile(name): [res, ps, updated], the value returned, the
\* stored list afterwards and whether workspaceState.update was called
deleteProfile(ps, name) ==
  IF Len(WithoutName(ps, name)) # Len(ps)
  THEN [res |-> TRUE, ps |-> WithoutName(ps, name), updated |-> TRUE]
  ELSE [res |-> FALSE, ps |-> ps, updated |-> FALSE]

renameProfile_NoNameCheck(ps, oldName, newName) ==
  IF ~HasProfile(ps, oldName)
  THEN [res |-> FALSE, ps |-> ps, updated |-> FALSE]
  ELSE [res |-> TRUE,
        ps |-> [ps EXCEPT ![IndexOf(ps, oldName)].name = newName],
        updated |-> TRUE]

\* renameProfile(oldName, newName), with the fields of deleteProfile
renameProfile(ps, oldName, newName) ==
  IF ~HasProfile(ps, oldName)
  THEN [res |-> FALSE, ps |-> ps, updated |-> FALSE]
  ELSE IF HasProfile(ps, newName) /\ newName # oldName
  THEN [res |-> FALSE, ps |-> ps, updated |-> FALSE]
  ELSE [res |-> TRUE,
        ps |-> [ps EXCEPT ![IndexOf(ps, oldName)].name = newName],
        updated |-> TRUE]

\* ------------------------------------------------------------ getChildren
\* an element of the view: [p, isDir, contextValue]
Alphabet ==
  <<".", "1", "2", "3", "4", "5", "6", "a", "b", "c", "d", "e", "f", "g",
    "i", "j", "k", "l", "m", "n", "o", "p", "r", "s", "t", "u">>

Rank(ch) == CHOOSE i \in 1..Len(Alphabet) : Alphabet[i] = Lower(ch)

\* a.toLowerCase().localeCompare(b.toLowerCase()) < 0, from position i on
RECURSIVE NameBefore(_, _, _)
NameBefore(a, b, i) ==
  IF i > Len(a) THEN i <= Len(b)
  ELSE IF i > Len(b) THEN FALSE
  ELSE IF Rank(a[i]) # Rank(b[i]) THEN Rank(a[i]) < Rank(b[i])
  ELSE NameBefore(a, b, i + 1)

\* the comparison of the sort: directories first, then by name
ItemBefore(a, b) ==
  IF a.isDir # b.isDir THEN a.isDir
  ELSE NameBefore(Chars(Last(a.p)), Chars(Last(b.p)), 1)

RECURSIVE InsertSorted(_, _)
InsertSorted(s, x) ==
  IF s = <<>> THEN <<x>>
  ELSE IF ItemBefore(x, s[1]) THEN <<x>> \o s
  ELSE <<s[1]>> \o InsertSorted(Tail(s), x)

RECURSIVE SortItems(_)
SortItems(s) ==
  IF s = <<>> THEN <<>> ELSE InsertSorted(SortItems(Front(s)), Last(s))

\* the entries of d that pass the validation, each with the contextValue
\* of its stored bit; returns [items, c]
RECURSIVE ListEntries(_, _, _, _, _, _, _)
ListEntries(w, ci, c, d, i, t, acc) ==
  IF i > Len(ReadDir(w, d)) THEN [items |-> acc, c |-> c]
  ELSE LET child == Append(d, ReadDir(w, d)[i])
           vr    == ValidateEntry(w, c, child, t)
       IN  ListEntries(w, ci, vr.c, d, i + 1, t,
             IF ~vr.v.shouldIgnore /\ vr.v.isValidSize
             THEN Append(acc,
                    [p |-> child, isDir |-> IsDirectory(w, child),
                     contextValue |-> IF child \in DOMAIN ci /\ ci[child]
                                      THEN "checked" ELSE "unchecked"])
             ELSE acc)

\* the search filter of the listing
FilterItems(w, q, items) ==
  SelectSeq(items,
            LAMBDA it : \/ matchesSearchQuery(q, it.p)
                        \/ it.isDir /\ directoryHasMatchingFiles(w, q, it.p))

\* returns [items, c, ffc]: the listing, the caches and the filtered
\* listing cache as left by the call
\* the filter loop of getFilesInDirectory from item i on, up to the item
\* whose directoryHasMatchingFiles it awaits, or to the end
RECURSIVE FilterLoop(_, _, _, _)
FilterLoop(q, items, i, acc) ==
  IF i > Len(items) THEN [i |-> i, acc |-> acc, await |-> FALSE]
  ELSE IF matchesSearchQuery(q, items[i].p)
       THEN FilterLoop(q, items, i + 1, Append(acc, items[i]))
       ELSE IF items[i].isDir THEN [i |-> i, acc |-> acc, await |-> TRUE]
            ELSE FilterLoop(q, items, i + 1, acc)

getFilesInDirectory(w, ci, c, ffc, q, d, t) ==
  IF q # "" /\ d \in DOMAIN ffc
  THEN [items |-> ffc[d], c |-> c, ffc |-> ffc]
  ELSE IF ReadFails(w, d) THEN [items |-> <<>>, c |-> c, ffc |-> ffc]
  ELSE LET r == ListEntries(w, ci, c, d, 1, t, <<>>)
           finalEntries ==
             SortItems(IF q # "" THEN FilterItems(w, q, r.items) ELSE r.items)
       IN  [items |-> finalEntries, c |-> r.c,
            ffc |-> IF q # "" THEN Put(ffc, d, finalEntries) ELSE ffc]

\* ------------------------------------------------------------------ state
VARIABLES world, opsLimit, checkedItems, cache, now, searchQuery, task, last, ops,
          profiles, pendingUpdates, filteredFileCache, updateDebounceTimer, listing,
          second

vars == <<world, opsLimit, checkedItems, cache, now, searchQuery, task, last, ops,
          profiles, pendingUpdates, filteredFileCache, updateDebounceTimer, listing,
          second>>

TreeWorlds == {Workspace(w) : w \in {FsBasic, FsElig, FsNest, FsHollow}}

DeepWorlds == {Workspace(FsNest)}

Queries == {"", "*.ts"}

\* the elements a command can be issued on: the entries down to TargetDepth
Targets(w) == PathsBelow(w, <<>>, TargetDepth) \ {<<>>}

TickMs == cacheExpirationMs

MaxNow == MaxTicks * TickMs

IsChecked(ci, p) == p \in DOMAIN ci /\ ci[p]

\* an asynchronous propagation: `pending` is the directory whose
\* readDirectory is awaited, `stack` the loops of the enclosing calls
\* updateDebounceTimer: whether a timeout is pending and when it is due
NoTimer == [armed |-> FALSE, due |-> 0]

\* no getFilesInDirectory call is suspended
NoListing == [status |-> "idle"]

IdleTask ==
  [status |-> "idle", kind |-> "none", target |-> <<>>, checked |-> FALSE,
   hasPending |-> FALSE, pending |-> <<>>, stack |-> <<>>, visited |-> {},
   tripped |-> FALSE, reads |-> 0, pre |-> EmptyMap]

\* no operation has been issued while a propagation was suspended
NoSecond == [op |-> "none", tk |-> IdleTask]

\* the most recent event: the operation, for a state query its argument,
\* its result and whether the verdict cache missed, and the number of
\* change notifications fired.  `armed` holds the directories whose
\* cached verdict a setChecked(a, false, true) has just invalidated,
\* `wasArmed` tells that the query was on one of them, `cleared` that
\* uncheckAll has run and nothing was checked since.
NoLast ==
  [op |-> "init", arg |-> <<>>, res |-> "", miss |-> FALSE, fired |-> 0,
   armed |-> {}, wasArmed |-> FALSE, cleared |-> FALSE]

Start ==
  /\ checkedItems = EmptyMap
  /\ cache = EmptyCache
  /\ now = 0
  /\ searchQuery = ""
  /\ task = IdleTask
  /\ last = NoLast
  /\ ops = 0
  /\ pendingUpdates = {}
  /\ filteredFileCache = EmptyMap
  /\ updateDebounceTimer = NoTimer
  /\ listing = NoListing
  /\ second = NoSecond

Init == world \in TreeWorlds /\ opsLimit = MaxOps /\ profiles = <<>> /\ Start

InitDeep == world \in DeepWorlds /\ opsLimit = MaxDeepOps /\ profiles = <<>> /\ Start

GuardWorlds == {Workspace(w) : w \in {FsCycle, FsWide}}

InitGuard == world \in GuardWorlds /\ opsLimit = MaxGuardOps /\ profiles = <<>> /\ Start

\* ------------------------------------------------- recursive propagation
\* r = [ci, c, tk]: the store, the caches and the task while a propagation
\* runs from one suspension point to the next

\* EnterDirectory without the guard on visitedPaths.size
EnterDirectory_NoGuard(r, d) ==
  LET c1 == IF r.tk.kind = "selectAll" THEN invalidateDirectory(r.c, d) ELSE r.c
  IN  IF d \in r.tk.visited THEN [r EXCEPT !.c = c1]
      ELSE [r EXCEPT !.c = c1,
                     !.tk.visited = @ \cup {d},
                     !.tk.hasPending = TRUE,
                     !.tk.pending = d]

\* entry of updateChildrenCheckState / selectAllRecursive /
\* selectFilteredItems on directory d, up to the await of readDirectory
EnterDirectory(r, d) ==
  LET c1 == IF r.tk.kind = "selectAll" THEN invalidateDirectory(r.c, d) ELSE r.c
  IN  IF d \in r.tk.visited THEN [r EXCEPT !.c = c1]
      ELSE IF r.tk.kind # "selectFiltered"
              /\ Cardinality(r.tk.visited \cup {d}) > MaxVisited
           THEN [r EXCEPT !.c = c1,
                          !.tk.visited = @ \cup {d},
                          !.tk.tripped = TRUE]
           ELSE [r EXCEPT !.c = c1,
                          !.tk.visited = @ \cup {d},
                          !.tk.hasPending = TRUE,
                          !.tk.pending = d]

\* VisitDirectory that does not consult the ignore verdict
VisitDirectory_EnterIgnored(w, r, cp, t) ==
  LET c2 == IF r.tk.kind = "selectAll" THEN invalidateDirectory(r.c, cp) ELSE r.c
  IN  The({EnterDirectory(x, cp) :
             x \in {[r EXCEPT !.ci = Put(@, cp, r.tk.checked), !.c = c2]}})

\* VisitDirectory that sets the directory's bit but does not recurse
VisitDirectory_NoDescent(w, r, cp, t) ==
  IF shouldIgnoreFile(w, cp) THEN r
  ELSE [r EXCEPT !.ci = Put(@, cp, r.tk.checked)]

\* one iteration of the directory loop of updateChildrenCheckState or
\* selectAllRecursive on child directory cp
VisitDirectory(w, r, cp, t) ==
  LET hit == HasFileValidation(r.c, cp, t)
      ign == IF hit THEN getFileValidation(r.c, cp).shouldIgnore
             ELSE shouldIgnoreFile(w, cp)
      c1  == IF hit THEN r.c ELSE setFileValidation(r.c, cp, ign, TRUE, t)
  IN  IF ign THEN [r EXCEPT !.c = c1]
      ELSE LET c2 == IF r.tk.kind = "selectAll" THEN invalidateDirectory(c1, cp)
                     ELSE c1
           IN  The({EnterDirectory(x, cp) :
                      x \in {[r EXCEPT !.ci = Put(@, cp, r.tk.checked), !.c = c2]}})

\* VisitFiltered that selects files without testing the query
VisitFiltered_NoMatch(w, q, r, cp) ==
  IF shouldIgnoreFile(w, cp) THEN r
  ELSE IF ~IsDirectory(w, cp)
       THEN IF isFileSizeValid(w, cp)
            THEN [r EXCEPT !.ci = Put(@, cp, TRUE)]
            ELSE r
       ELSE IF directoryHasMatchingFiles(w, q, cp)
            THEN The({EnterDirectory(x, cp) : x \in {[r EXCEPT !.ci = Put(@, cp, TRUE)]}})
            ELSE r

\* one iteration of the entry loop of selectFilteredItems on entry cp
VisitFiltered(w, q, r, cp) ==
  IF shouldIgnoreFile(w, cp) THEN r
  ELSE IF ~IsDirectory(w, cp)
       THEN IF matchesSearchQuery(q, cp) /\ isFileSizeValid(w, cp)
            THEN [r EXCEPT !.ci = Put(@, cp, TRUE)]
            ELSE r
       ELSE IF directoryHasMatchingFiles(w, q, cp)
            THEN The({EnterDirectory(x, cp) : x \in {[r EXCEPT !.ci = Put(@, cp, TRUE)]}})
            ELSE r

\* runs the loops of the enclosing calls until the next readDirectory is
\* awaited or the outermost call has returned
RECURSIVE Advance(_, _, _, _)
Advance(w, q, r, t) ==
  IF r.tk.hasPending THEN r
  ELSE IF r.tk.stack = <<>> THEN [r EXCEPT !.tk.status = "done"]
  ELSE LET n   == Len(r.tk.stack)
           top == r.tk.stack[n]
       IN  IF top.todo = <<>>
           THEN The({Advance(w, q, x, t) : x \in {[r EXCEPT !.tk.stack = Front(@)]}})
           ELSE LET cp == Append(top.dir, Head(top.todo))
                    Visit(r1) == IF r.tk.kind = "selectFiltered"
                                 THEN VisitFiltered(w, q, r1, cp)
                                 ELSE VisitDirectory(w, r1, cp, t)
                IN  The({Advance(w, q, x, t) :
                           x \in {Visit(r1) :
                                    r1 \in {[r EXCEPT !.tk.stack[n].todo = Tail(@)]}}})

\* ProcessFile without the size check
ProcessFile_NoSizeCheck(w, r, cp, t) ==
  IF ~shouldIgnoreFile(w, cp)
  THEN [r EXCEPT !.ci = Put(@, cp, r.tk.checked)]
  ELSE r

\* one file task of updateChildrenCheckState / selectAllRecursive
ProcessFile(w, r, cp, t) ==
  LET hit == HasFileValidation(r.c, cp, t)
      ign == IF hit THEN getFileValidation(r.c, cp).shouldIgnore
             ELSE shouldIgnoreFile(w, cp)
      ok  == IF hit THEN getFileValidation(r.c, cp).isValidSize
             ELSE IF ~ign THEN isFileSizeValid(w, cp) ELSE TRUE
      c1  == IF hit THEN r.c ELSE setFileValidation(r.c, cp, ign, ok, t)
  IN  IF ~ign /\ ok
      THEN [r EXCEPT !.ci = Put(@, cp, r.tk.checked), !.c = c1]
      ELSE [r EXCEPT !.c = c1]

\* the file tasks of one directory (Promise.all over the non-directories)
RECURSIVE ProcessFiles(_, _, _, _, _, _)
ProcessFiles(w, r, d, entries, i, t) ==
  IF i > Len(entries) THEN r
  ELSE IF IsDirectory(w, Append(d, entries[i]))
       THEN ProcessFiles(w, r, d, entries, i + 1, t)
       ELSE The({ProcessFiles(w, x, d, entries, i + 1, t) :
                   x \in {ProcessFile(w, r, Append(d, entries[i]), t)}})

DirectoriesOf(w, d) ==
  SelectSeq(ReadDir(w, d), LAMBDA n : IsDirectory(w, Append(d, n)))

\* Resume in which a failed readDirectory ends the whole operation
Resume_AbortsAll(w, q, r, t) ==
  LET d  == r.tk.pending
      r0 == [r EXCEPT !.tk.hasPending = FALSE, !.tk.pending = <<>>,
                      !.tk.reads = @ + 1]
  IN  IF ReadFails(w, d) THEN [r0 EXCEPT !.tk.stack = <<>>, !.tk.status = "done"]
      ELSE IF r.tk.kind = "selectFiltered"
           THEN The({Advance(w, q, x, t) :
                       x \in {[r0 EXCEPT !.tk.stack =
                                  Append(@, [dir |-> d, todo |-> ReadDir(w, d)])]}})
           ELSE LET Files(r1) == ProcessFiles(w, r1, d, ReadDir(w, d), 1, t)
                    Dirs(r2)  == Advance(w, q,
                                   [r2 EXCEPT !.tk.stack =
                                      Append(@, [dir |-> d, todo |-> DirectoriesOf(w, d)])],
                                   t)
                IN  The({Dirs(r2) :
                           r2 \in {Files(r1) :
                                     r1 \in {[r0 EXCEPT !.c = invalidateDirectory(@, d)]}}})

\* the continuation after readDirectory(pending) has settled; a failed
\* read is caught in the call it was issued in, which returns
Resume(w, q, r, t) ==
  LET d  == r.tk.pending
      r0 == [r EXCEPT !.tk.hasPending = FALSE, !.tk.pending = <<>>,
                      !.tk.reads = @ + 1]
  IN  IF ReadFails(w, d) THEN Advance(w, q, r0, t)
      ELSE IF r.tk.kind = "selectFiltered"
           THEN The({Advance(w, q, x, t) :
                       x \in {[r0 EXCEPT !.tk.stack =
                                  Append(@, [dir |-> d, todo |-> ReadDir(w, d)])]}})
           ELSE LET Files(r1) == ProcessFiles(w, r1, d, ReadDir(w, d), 1, t)
                    Dirs(r2)  == Advance(w, q,
                                   [r2 EXCEPT !.tk.stack =
                                      Append(@, [dir |-> d, todo |-> DirectoriesOf(w, d)])],
                                   t)
                IN  The({Dirs(r2) :
                           r2 \in {Files(r1) :
                                     r1 \in {[r0 EXCEPT !.c = invalidateDirectory(@, d)]}}})

\* ------------------------------------------------------------ operations
Idle == task.status # "run"

MayIssue == Idle /\ ops < opsLimit

\* the view may ask for children and tree items while refresh() awaits
\* the configuration
MayRead == ops < opsLimit /\ (Idle \/ task.kind = "refresh")

NewTask(kind, target, checked) ==
  [IdleTask EXCEPT !.status = "run", !.kind = kind, !.target = target,
                   !.checked = checked, !.pre = checkedItems]

Eligible(w, p) ==
  ~shouldIgnoreFile(w, p) /\ (IsDirectory(w, p) \/ isFileSizeValid(w, p))

\* the elements getChildren hands to the view: eligible entries of listed
\* directories
RECURSIVE Displayed(_, _)
Displayed(w, p) ==
  p # <<>> /\ Eligible(w, p) /\ (Len(p) = 1 \/ Displayed(w, Front(p)))

Event(op, arg, res, miss, fired, armed, wasArmed, cleared) ==
  [op |-> op, arg |-> arg, res |-> res, miss |-> miss, fired |-> fired,
   armed |-> armed, wasArmed |-> wasArmed, cleared |-> cleared]

\* the event of a toggle on a file: `target` is the file, `streak` the
\* number of toggles of it in a row this one completes, `pre` the store
\* before the first of them, `was` the store before this one; when the
\* call follows a toggle on a file directly, `prev` is that file and
\* `prevWas` the store before that toggle
FileToggled(fired, target, streak, pre) ==
  [op |-> "toggleFile", arg |-> <<>>, res |-> "", miss |-> FALSE, fired |-> fired,
   armed |-> {}, wasArmed |-> FALSE, cleared |-> FALSE,
   target |-> target, streak |-> streak, pre |-> pre, was |-> checkedItems,
   prev |-> IF last.op = "toggleFile" THEN last.target ELSE <<>>,
   prevWas |-> IF last.op = "toggleFile" THEN last.was ELSE EmptyMap]

\* the event of an operation that empties the store: `found` is the
\* number of identities it found checked, `cached` whether it found a
\* cached verdict, validation or listing
Emptied(op, fired, cleared, found, cached) ==
  [op |-> op, arg |-> <<>>, res |-> "", miss |-> FALSE, fired |-> fired,
   armed |-> {}, wasArmed |-> FALSE, cleared |-> cleared,
   found |-> found, cached |-> cached]

\* the event of a profile load: `pre` is the store it started from
ProfileLoaded(name, fired, cleared, pre) ==
  [op |-> "loadProfile", arg |-> <<>>, res |-> name, miss |-> FALSE, fired |-> fired,
   armed |-> {}, wasArmed |-> FALSE, cleared |-> cleared, pre |-> pre]

\* the event of a call of the ProfileManager: the name(s) and paths it was
\* given, the stored list `pre` it found, the value it returned and
\* whether it called workspaceState.update
ProfileEvent(op, name, newName, paths, pre, res, updated) ==
  [op |-> op, arg |-> <<>>, res |-> "", miss |-> FALSE, fired |-> 0,
   armed |-> last.armed, wasArmed |-> FALSE, cleared |-> last.cleared,
   name |-> name, newName |-> newName, paths |-> paths, pre |-> pre,
   ok |-> res, updated |-> updated]

\* the event of getChildren: `items` is the list it returned
Listed(d, items) ==
  [op |-> "getChildren", arg |-> d, res |-> "", miss |-> FALSE, fired |-> 0,
   armed |-> last.armed, wasArmed |-> FALSE, cleared |-> last.cleared,
   items |-> items]

\* the element the view hands to a command: the identity, its type and
\* the contextValue it was listed with, which may be out of date
Elements(w) ==
  {[p |-> p, isDir |-> IsDirectory(w, p), contextValue |-> cv] :
     p \in {x \in Targets(w) : Displayed(w, x)}, cv \in {"checked", "unchecked"}}

\* the current state read from the contextValue of the element
isCurrentlyChecked_FromContext(ci, element) == element.contextValue = "checked"

isCurrentlyChecked_FromVerdict(ci, element) ==
  IF element.isDir
  THEN getDirectorySelectionState(world, ci, cache, element.p, now).state = "all"
  ELSE IsChecked(ci, element.p)

isCurrentlyChecked(ci, element) == IsChecked(ci, element.p)

\* updateView() without an element: fires the change event at once; n is
\* the number of notifications of the operation so far
updateView_Silent(n) == n

updateView(n) == n + 1

\* the notification fired when the propagation is awaited before it
notifyAfter_Early(status, n) == updateView(n)

\* updateView() called in the unfiltered branch of selectAll only
notifyAfter_UnfilteredOnly(status, n) ==
  IF status = "done" /\ searchQuery = "" THEN updateView(n) ELSE n

\* await the propagation, then updateView(): the change event fires once
\* the propagation has run to its end
notifyAfter(status, n) == IF status = "done" THEN updateView(n) ELSE n

\* toggleChecked that writes back the store as it was when the previous
\* call started: two calls in a row work on the same snapshot
ToggleChecked_StaleSnapshot(element) ==
  /\ MayIssue
  /\ LET p   == element.p
         cur == isCurrentlyChecked(checkedItems, element)
         ci1 == Put(IF last.op = "toggleFile" THEN last.was ELSE checkedItems, p, ~cur)
         c1  == invalidateParentDirectories(invalidateDirectory(cache, p), p)
         again == last.op = "toggleFile" /\ last.target = p
     IN  IF element.isDir
         THEN LET r == EnterDirectory(
                         [ci |-> ci1, c |-> c1,
                          tk |-> NewTask("toggle", p, ~cur)], p)
              IN  /\ checkedItems' = r.ci
                  /\ cache' = r.c
                  /\ task' = r.tk
                  /\ last' = Event("toggle", <<>>, "", FALSE,
                                   notifyAfter(r.tk.status, 0), {}, FALSE, FALSE)
         ELSE /\ checkedItems' = ci1
              /\ cache' = c1
              /\ task' = IdleTask
              /\ last' = FileToggled(updateView(0), p,
                                     IF again THEN last.streak + 1 ELSE 1,
                                     IF again THEN last.pre ELSE checkedItems)
  /\ ops' = ops + 1
  /\ UNCHANGED <<world, opsLimit, second, listing, updateDebounceTimer, profiles, pendingUpdates, filteredFileCache,
               now, searchQuery>>

\* toggleChecked(element), up to its first await
ToggleChecked(element) ==
  /\ MayIssue
  /\ LET p   == element.p
         cur == isCurrentlyChecked(checkedItems, element)
         ci1 == Put(checkedItems, p, ~cur)
         c1  == invalidateParentDirectories(invalidateDirectory(cache, p), p)
         again == last.op = "toggleFile" /\ last.target = p
     IN  IF element.isDir
         THEN LET r == EnterDirectory(
                         [ci |-> ci1, c |-> c1,
                          tk |-> NewTask("toggle", p, ~cur)], p)
              IN  /\ checkedItems' = r.ci
                  /\ cache' = r.c
                  /\ task' = r.tk
                  /\ last' = Event("toggle", <<>>, "", FALSE,
                                   notifyAfter(r.tk.status, 0), {}, FALSE, FALSE)
         ELSE /\ checkedItems' = ci1
              /\ cache' = c1
              /\ task' = IdleTask
              /\ last' = FileToggled(updateView(0), p,
                                     IF again THEN last.streak + 1 ELSE 1,
                                     IF again THEN last.pre ELSE checkedItems)
  /\ ops' = ops + 1
  /\ UNCHANGED <<world, opsLimit, second, listing, updateDebounceTimer, profiles, pendingUpdates, filteredFileCache,
               now, searchQuery>>

\* selectAll(), up to its first await
SelectAll ==
  /\ MayIssue
  /\ LET kind == IF searchQuery # "" THEN "selectFiltered" ELSE "selectAll"
         r == EnterDirectory([ci |-> checkedItems, c |-> cache,
                              tk |-> NewTask(kind, <<>>, TRUE)], <<>>)
     IN  /\ checkedItems' = r.ci
         /\ cache' = r.c
         /\ task' = r.tk
  /\ last' = Event("selectAll", <<>>, "", FALSE, notifyAfter(task'.status, 0), {},
                   FALSE, FALSE)
  /\ ops' = ops + 1
  /\ UNCHANGED <<world, opsLimit, second, listing, updateDebounceTimer, profiles, pendingUpdates, filteredFileCache,
               now, searchQuery>>

\* the running propagation resumes after its readDirectory, runs to its
\* next await or to its end; at its end the handler calls updateView()
\* a command arrives while the propagation of a toggle awaits a
\* readDirectory: the command handler has not awaited toggleChecked
MayOverlap ==
  /\ ops < opsLimit
  /\ task.status = "run"
  /\ task.kind = "toggle"
  /\ second.op = "none"

\* toggleChecked called while an earlier propagation is suspended
ToggleCheckedDuringPropagation(element) ==
  /\ MayOverlap
  /\ LET p   == element.p
         cur == isCurrentlyChecked(checkedItems, element)
         ci1 == Put(checkedItems, p, ~cur)
         c1  == invalidateParentDirectories(invalidateDirectory(cache, p), p)
     IN  IF element.isDir
         THEN LET r == EnterDirectory(
                         [ci |-> ci1, c |-> c1,
                          tk |-> NewTask("toggle", p, ~cur)], p)
              IN  /\ checkedItems' = r.ci
                  /\ cache' = r.c
                  /\ second' = [op |-> "toggle", tk |-> r.tk]
                  /\ last' = Event("toggle", <<>>, "", FALSE,
                                   notifyAfter(r.tk.status, 0), {}, FALSE, FALSE)
         ELSE /\ checkedItems' = ci1
              /\ cache' = c1
              /\ second' = [op |-> "toggle",
                            tk |-> [NewTask("toggle", p, ~cur) EXCEPT !.status = "done"]]
              /\ last' = Event("toggle", <<>>, "", FALSE, updateView(0), {}, FALSE,
                               FALSE)
  /\ ops' = ops + 1
  /\ UNCHANGED <<world, opsLimit, listing, updateDebounceTimer, profiles, pendingUpdates,
                 filteredFileCache, now, searchQuery, task>>

\* uncheckAll called while an earlier propagation is suspended
UncheckAllDuringPropagation ==
  /\ MayOverlap
  /\ checkedItems' = uncheckAll(checkedItems)
  /\ second' = [op |-> "uncheckAll", tk |-> IdleTask]
  /\ last' = Emptied("uncheckAll", updateView(0), TRUE,
                     Cardinality({k \in DOMAIN checkedItems : checkedItems[k]}),
                     cache # EmptyCache \/ filteredFileCache # EmptyMap)
  /\ ops' = ops + 1
  /\ UNCHANGED <<world, opsLimit, listing, updateDebounceTimer, profiles, pendingUpdates,
                 filteredFileCache, cache, now, searchQuery, task>>

\* the readDirectory awaited by the later propagation returns
PropagateSecond ==
  /\ second.tk.status = "run"
  /\ \E r \in {Resume(world, searchQuery,
                     [ci |-> checkedItems, c |-> cache, tk |-> second.tk], now)} :
         /\ checkedItems' = r.ci
         /\ cache' = r.c
         /\ second' = [second EXCEPT !.tk = r.tk]
         /\ last' = Event("step", <<>>, "", FALSE,
                          notifyAfter(r.tk.status, 0), {}, FALSE, FALSE)
  /\ UNCHANGED <<world, opsLimit, listing, updateDebounceTimer, profiles, pendingUpdates,
                 filteredFileCache, now, searchQuery, ops, task>>

PropagateStep ==
  /\ task.status = "run"
  /\ task.kind # "refresh"
  /\ \E r \in {Resume(world, searchQuery,
                     [ci |-> checkedItems, c |-> cache, tk |-> task], now)} :
         /\ checkedItems' = r.ci
         /\ cache' = r.c
         /\ task' = r.tk
         /\ last' = Event("step", <<>>, "", FALSE,
                          notifyAfter(r.tk.status, 0), {}, FALSE, FALSE)
  /\ UNCHANGED <<world, opsLimit, second, listing, updateDebounceTimer, profiles, pendingUpdates, filteredFileCache,
               now, searchQuery, ops>>

\* setChecked(path, checked, fireEvent) on the path of p; `res` records
\* the fireEvent argument
SetChecked(p, checked, fireEvent) ==
  /\ MayIssue
  /\ LET r == setChecked([ci |-> checkedItems, c |-> cache], fsPath(p), checked)
     IN  checkedItems' = r.ci /\ cache' = r.c
  /\ task' = IdleTask
  /\ last' = Event("setChecked", <<>>, IF fireEvent THEN "fire" ELSE "quiet", FALSE,
                   IF fireEvent THEN updateView(0) ELSE 0,
                   IF /\ ~checked
                      /\ fireEvent
                      /\ ~IsDirectory(world, p)
                      /\ Eligible(world, p)
                      /\ \E d \in ParentChain(p) :
                            getDirectoryState(cache, d, now) = "all"
                   THEN ParentChain(p) ELSE {},
                   FALSE, FALSE)
  /\ ops' = ops + 1
  /\ UNCHANGED <<world, opsLimit, second, listing, updateDebounceTimer, profiles, pendingUpdates, filteredFileCache,
               now, searchQuery>>

UncheckAll ==
  /\ MayIssue
  /\ checkedItems' = uncheckAll(checkedItems)
  /\ task' = IdleTask
  /\ last' = Emptied("uncheckAll", updateView(0), TRUE,
                     Cardinality({k \in DOMAIN checkedItems : checkedItems[k]}),
                     cache # EmptyCache \/ filteredFileCache # EmptyMap)
  /\ ops' = ops + 1
  /\ UNCHANGED <<world, opsLimit, second, listing, updateDebounceTimer, profiles, pendingUpdates, filteredFileCache,
               cache, now, searchQuery>>

SetSearchQuery(q) ==
  /\ MayIssue
  /\ searchQuery' = q
  /\ task' = IdleTask
  /\ last' = Event("setSearchQuery", <<>>, "", FALSE, 1, last.armed, FALSE, last.cleared)
  /\ filteredFileCache' = EmptyMap
  /\ ops' = ops + 1
  /\ UNCHANGED <<world, opsLimit, second, listing, updateDebounceTimer, profiles, pendingUpdates, checkedItems, cache, now>>

\* getTreeItem(element) on a directory element: the view asks for its
\* selection state
GetTreeItem(p) ==
  /\ MayRead
  /\ IsDirectory(world, p)
  /\ LET g == getDirectorySelectionState(world, checkedItems, cache, p, now)
     IN  /\ cache' = g.c
         /\ last' = Event("getState", p, g.state,
                          getDirectoryState(cache, p, now) = "undefined", 0,
                          last.armed \ {p}, p \in last.armed, last.cleared)
  /\ ops' = ops + 1
  /\ UNCHANGED <<world, opsLimit, second, listing, updateDebounceTimer, profiles, pendingUpdates, filteredFileCache,
               checkedItems, now, searchQuery, task>>

Tick ==
  /\ now + TickMs <= MaxNow
  /\ now' = now + TickMs
  /\ last' = [last EXCEPT !.op = "tick", !.fired = 0]
  /\ UNCHANGED <<world, opsLimit, second, listing, updateDebounceTimer, profiles, pendingUpdates, filteredFileCache,
               checkedItems, cache, searchQuery, task, ops>>

\* getChildren that stores the bit it read for every entry it lists
GetChildren_StoresDefault(d) ==
  /\ MayRead
  /\ IsDirectory(world, d)
  /\ LET g == getFilesInDirectory(world, checkedItems, cache, filteredFileCache,
                                  searchQuery, d, now)
         listed == {g.items[i].p : i \in 1..Len(g.items)}
     IN  /\ cache' = g.c
         /\ filteredFileCache' = g.ffc
         /\ last' = Listed(d, g.items)
         /\ checkedItems' = [x \in DOMAIN checkedItems \cup listed |->
                               IsChecked(checkedItems, x)]
  /\ ops' = ops + 1
  /\ UNCHANGED <<world, opsLimit, second, listing, updateDebounceTimer, profiles, pendingUpdates, now, searchQuery, task>>

\* getChildren(element) on the root (<<>>) or on a directory element
\* getChildren up to the first await of directoryHasMatchingFiles in the
\* filter loop: the entries are read and validated, the items before the
\* directory are filtered under the query as it is
BeginGetChildren(d) ==
  /\ MayRead
  /\ listing.status = "idle"
  /\ IsDirectory(world, d)
  /\ searchQuery # ""
  /\ d \notin DOMAIN filteredFileCache
  /\ ~ReadFails(world, d)
  /\ LET r == ListEntries(world, checkedItems, cache, d, 1, now, <<>>)
         f == FilterLoop(searchQuery, r.items, 1, <<>>)
     IN  /\ f.await
         /\ cache' = r.c
         /\ listing' = [status |-> "run", d |-> d, items |-> r.items,
                        i |-> f.i, acc |-> f.acc]
         /\ last' = [Listed(d, <<>>) EXCEPT !.op = "listing"]
  /\ ops' = ops + 1
  /\ UNCHANGED <<world, opsLimit, second, updateDebounceTimer, profiles, pendingUpdates, checkedItems,
                 now, searchQuery, task, filteredFileCache>>

\* the awaited directoryHasMatchingFiles returns: the loop goes on under
\* this.searchQuery and this.searchRegex as they are now; at its end the
\* listing is sorted, stored if a query is set, and returned
ResumeGetChildren ==
  /\ listing.status = "run"
  /\ LET it  == listing.items[listing.i]
         acc == IF directoryHasMatchingFiles(world, searchQuery, it.p)
                THEN Append(listing.acc, it) ELSE listing.acc
         f   == FilterLoop(searchQuery, listing.items, listing.i + 1, acc)
     IN  IF f.await
         THEN /\ listing' = [listing EXCEPT !.i = f.i, !.acc = f.acc]
              /\ last' = [Listed(listing.d, <<>>) EXCEPT !.op = "listing"]
              /\ UNCHANGED filteredFileCache
         ELSE /\ listing' = NoListing
              /\ last' = Listed(listing.d, SortItems(f.acc))
              /\ filteredFileCache' =
                   IF searchQuery # ""
                   THEN Put(filteredFileCache, listing.d, SortItems(f.acc))
                   ELSE filteredFileCache
  /\ UNCHANGED <<world, opsLimit, second, updateDebounceTimer, profiles, pendingUpdates, checkedItems,
                 now, searchQuery, task, cache, ops>>

GetChildren(d) ==
  /\ MayRead
  /\ IsDirectory(world, d)
  /\ LET g == getFilesInDirectory(world, checkedItems, cache, filteredFileCache,
                                  searchQuery, d, now)
     IN  /\ cache' = g.c
         /\ filteredFileCache' = g.ffc
         /\ last' = Listed(d, g.items)
  /\ ops' = ops + 1
  /\ UNCHANGED <<world, opsLimit, second, listing, updateDebounceTimer, profiles, pendingUpdates, checkedItems, now,
                 searchQuery, task>>

\* refresh(), up to its await of the configuration
Refresh ==
  /\ MayIssue
  /\ checkedItems' = EmptyMap
  /\ cache' = clear(cache)
  /\ filteredFileCache' = EmptyMap
  /\ task' = [IdleTask EXCEPT !.status = "run", !.kind = "refresh"]
  /\ last' = Emptied("refresh", 0, FALSE,
                     Cardinality({k \in DOMAIN checkedItems : checkedItems[k]}),
                     cache # EmptyCache \/ filteredFileCache # EmptyMap)
  /\ ops' = ops + 1
  /\ UNCHANGED <<world, opsLimit, second, listing, updateDebounceTimer, profiles, pendingUpdates, now, searchQuery>>

\* refresh() after the configuration is loaded: fires the change event
RefreshDone ==
  /\ task.status = "run"
  /\ task.kind = "refresh"
  /\ task' = [task EXCEPT !.status = "done"]
  /\ last' = Event("refreshed", <<>>, "", FALSE, 1, last.armed, FALSE, last.cleared)
  /\ UNCHANGED <<world, opsLimit, second, listing, updateDebounceTimer, profiles, pendingUpdates, filteredFileCache,
                 checkedItems, cache, now, searchQuery, ops>>

\* scheduleUpdate that leaves a running timer as it is
scheduleUpdate_KeepsTimer(pending, timer, p, t) ==
  [pending |-> pending \cup {p},
   timer |-> IF timer.armed THEN timer ELSE [armed |-> TRUE, due |-> t + debounceMs]]

\* scheduleUpdate(element) at time t: the key joins the pending set, the
\* running timer is cleared and a new one is set
scheduleUpdate(pending, timer, p, t) ==
  [pending |-> pending \cup {p}, timer |-> [armed |-> TRUE, due |-> t + debounceMs]]

\* the times of the first and of the latest updateView(element) call of
\* the burst that is pending, -1 when the latest events do not tell
BurstOf(ev) ==
  IF ev.op \in {"updateView", "tick"} /\ "calledAt" \in DOMAIN ev
  THEN [first |-> ev.first, calledAt |-> ev.calledAt]
  ELSE [first |-> -1, calledAt |-> -1]

\* updateView that resets the selection as refresh() does
UpdateView_AsRefresh(withElement, p) ==
  /\ MayIssue
  /\ checkedItems' = EmptyMap
  /\ updateDebounceTimer' =
       IF withElement THEN scheduleUpdate(pendingUpdates, updateDebounceTimer, p, now).timer
       ELSE updateDebounceTimer
  /\ pendingUpdates' = IF withElement THEN pendingUpdates \cup {p} ELSE pendingUpdates
  /\ last' = Event("updateView", <<>>, "", FALSE, IF withElement THEN 0 ELSE 1,
                   last.armed, FALSE, last.cleared)
  /\ ops' = ops + 1
  /\ UNCHANGED <<world, opsLimit, second, listing, profiles, filteredFileCache, cache, now,
                 searchQuery, task>>

\* updateView(element) / updateView(): with an element the update is
\* scheduled (scheduleUpdate), without one the change event fires at once
UpdateView(withElement, p) ==
  /\ MayIssue
  /\ IF withElement
     THEN /\ pendingUpdates' =
               scheduleUpdate(pendingUpdates, updateDebounceTimer, p, now).pending
          /\ updateDebounceTimer' =
               scheduleUpdate(pendingUpdates, updateDebounceTimer, p, now).timer
          /\ last' = Event("updateView", <<>>, "", FALSE, 0, last.armed, FALSE,
                           last.cleared)
                     @@ [first |-> IF pendingUpdates = {} \/ BurstOf(last).first = -1
                                   THEN now ELSE BurstOf(last).first,
                         calledAt |-> now]
     ELSE /\ pendingUpdates' = pendingUpdates
          /\ updateDebounceTimer' = updateDebounceTimer
          /\ last' = Event("updateView", <<>>, "", FALSE, updateView(0), last.armed,
                           FALSE, last.cleared)
                     @@ [first |-> BurstOf(last).first,
                         calledAt |-> BurstOf(last).calledAt]
  /\ ops' = ops + 1
  /\ UNCHANGED <<world, opsLimit, second, listing, profiles, filteredFileCache, checkedItems, cache,
                 now, searchQuery, task>>

\* the callback of the debounce timer: processPendingUpdates()
ProcessPendingUpdates ==
  /\ updateDebounceTimer.armed
  /\ pendingUpdates # {}
  /\ pendingUpdates' = {}
  /\ updateDebounceTimer' = NoTimer
  /\ last' = Event("debounced", <<>>, "", FALSE, 1, last.armed, FALSE, last.cleared)
             @@ BurstOf(last)
  /\ UNCHANGED <<world, opsLimit, second, listing, profiles, filteredFileCache, checkedItems, cache,
                 now, searchQuery, task, ops>>

\* the debounce timer expires when its delay has passed
TimerFires == now >= updateDebounceTimer.due /\ ProcessPendingUpdates

\* d ms pass; a timer that is due fires before more time passes
Elapse(d) ==
  /\ IF updateDebounceTimer.armed THEN now + d <= updateDebounceTimer.due
     ELSE now + d <= MaxDebounceNow
  /\ now' = now + d
  /\ last' = [last EXCEPT !.op = "tick", !.fired = 0]
  /\ UNCHANGED <<world, opsLimit, second, listing, updateDebounceTimer, profiles, pendingUpdates,
                 filteredFileCache, checkedItems, cache, searchQuery, task, ops>>

\* the saveProfile command
SaveProfile(name) ==
  /\ MayIssue
  /\ profiles' = saveProfile(profiles, name, getCheckedItems(checkedItems))
  /\ last' = ProfileEvent("saveProfile", name, name, getCheckedItems(checkedItems),
                          profiles, TRUE, TRUE)
  /\ ops' = ops + 1
  /\ UNCHANGED <<world, opsLimit, second, listing, updateDebounceTimer, pendingUpdates, filteredFileCache, checkedItems,
                 cache, now, searchQuery, task>>

\* profileManager.deleteProfile(name)
DeleteProfile(name) ==
  /\ MayIssue
  /\ profiles' = deleteProfile(profiles, name).ps
  /\ last' = ProfileEvent("deleteProfile", name, name, {}, profiles,
                          deleteProfile(profiles, name).res,
                          deleteProfile(profiles, name).updated)
  /\ ops' = ops + 1
  /\ UNCHANGED <<world, opsLimit, second, listing, updateDebounceTimer, pendingUpdates, filteredFileCache, checkedItems,
                 cache, now, searchQuery, task>>

\* profileManager.renameProfile(oldName, newName)
RenameProfile(oldName, newName) ==
  /\ MayIssue
  /\ profiles' = renameProfile(profiles, oldName, newName).ps
  /\ last' = ProfileEvent("renameProfile", oldName, newName, {}, profiles,
                          renameProfile(profiles, oldName, newName).res,
                          renameProfile(profiles, oldName, newName).updated)
  /\ ops' = ops + 1
  /\ UNCHANGED <<world, opsLimit, second, listing, updateDebounceTimer, pendingUpdates, filteredFileCache, checkedItems,
                 cache, now, searchQuery, task>>

\* the loadProfile command: uncheckAll(), setChecked(path, true, false)
\* for each path of the profile, updateView()
LoadProfile(name) ==
  /\ MayIssue
  /\ HasProfile(profiles, name)
  /\ LET r == loadSequence(checkedItems, cache, loadProfile(profiles, name).paths)
     IN  checkedItems' = r.ci /\ cache' = r.c
  /\ task' = IdleTask
  /\ last' = ProfileLoaded(name, updateView(updateView(0)),
                           loadProfile(profiles, name).paths = {}, checkedItems)
  /\ ops' = ops + 1
  /\ UNCHANGED <<world, opsLimit, second, listing, updateDebounceTimer, profiles, pendingUpdates, filteredFileCache, now,
                 searchQuery>>

\* the periodic sweep of the caches (setInterval in the constructor)
CleanExpired ==
  /\ cache' = cleanExpired(cache, now)
  /\ UNCHANGED <<world, opsLimit, second, listing, updateDebounceTimer, profiles, pendingUpdates, filteredFileCache,
                 checkedItems, now, searchQuery, task, last, ops>>

\* toggleChecked(element) on an element without resourceUri: returns at
\* once
ToggleCheckedNoUri ==
  /\ MayIssue
  /\ last' = [FileToggled(0, <<>>, 0, checkedItems) EXCEPT !.op = "toggleNoUri"]
  /\ ops' = ops + 1
  /\ UNCHANGED <<world, opsLimit, second, listing, updateDebounceTimer, profiles, pendingUpdates, filteredFileCache,
                 checkedItems, cache, now, searchQuery, task>>

\* getChildren(element) on an element without resourceUri: neither branch
\* returns, the function ends with return []
GetChildrenNoUri ==
  /\ MayRead
  /\ last' = Listed(<<>>, <<>>)
  /\ ops' = ops + 1
  /\ UNCHANGED <<world, opsLimit, second, listing, updateDebounceTimer, profiles, pendingUpdates, filteredFileCache,
                 checkedItems, cache, now, searchQuery, task>>

\* getTreeItem(element) on an element without resourceUri: reading
\* element.resourceUri.fsPath throws a TypeError outside any try, so the
\* promise the host awaits is rejected
GetTreeItemNoUri ==
  /\ MayRead
  /\ last' = Event("getTreeItem", <<>>, "rejected", FALSE, 0, last.armed, FALSE,
                   last.cleared)
  /\ ops' = ops + 1
  /\ UNCHANGED <<world, opsLimit, second, listing, updateDebounceTimer, profiles, pendingUpdates, filteredFileCache,
                 checkedItems, cache, now, searchQuery, task>>

ProfileNames == {"p"}

Next ==
  \/ \E element \in Elements(world) : ToggleChecked(element)
  \/ SelectAll
  \/ PropagateStep
  \/ \E p \in Targets(world), b \in BOOLEAN, f \in BOOLEAN : SetChecked(p, b, f)
  \/ UncheckAll
  \/ \E q \in Queries : SetSearchQuery(q)
  \/ \E p \in Targets(world) : Displayed(world, p) /\ GetTreeItem(p)
  \/ Tick
  \/ \E d \in {<<>>} \cup {x \in Targets(world) : Displayed(world, x)} : GetChildren(d)
  \/ Refresh
  \/ RefreshDone
  \/ \E b \in BOOLEAN :
       \E p \in {x \in Targets(world) : Displayed(world, x) /\ Len(x) <= MaxElementDepth} :
         UpdateView(b, p)
  \/ ProcessPendingUpdates
  \/ \E name \in ProfileNames : SaveProfile(name)
  \/ \E name \in ProfileNames : LoadProfile(name)
  \/ CleanExpired

Spec == Init /\ [][Next]_vars

\* the sessions in which only the selection commands are issued and the
\* view asks for tree items: longer runs of them than Spec reaches
NextSelection ==
  \/ \E element \in Elements(world) : ToggleChecked(element)
  \/ SelectAll
  \/ PropagateStep
  \/ \E p \in Targets(world), b \in BOOLEAN, f \in BOOLEAN : SetChecked(p, b, f)
  \/ UncheckAll
  \/ \E q \in Queries : SetSearchQuery(q)
  \/ \E p \in Targets(world) : Displayed(world, p) /\ GetTreeItem(p)
  \/ Tick

SpecDeep == InitDeep /\ [][NextSelection]_vars

SpecGuard == InitGuard /\ [][NextSelection]_vars

\* sessions on a workspace that holds a directory the process may not read
FaultWorlds == {Workspace(FsDenied)}

InitFault == world \in FaultWorlds /\ opsLimit = MaxFaultOps /\ profiles = <<>> /\ Start

\* the elements of directories that were listed once and whose read fails
StaleElements(w) ==
  {[p |-> <<n>>, isDir |-> TRUE, contextValue |-> "unchecked"] : n \in w.denied}

\* the commands and the requests of the view, also on elements whose
\* directory cannot be read and on elements without resourceUri
NextFault ==
  \/ \E element \in Elements(world) \cup StaleElements(world) : ToggleChecked(element)
  \/ SelectAll
  \/ PropagateStep
  \/ \E p \in Targets(world), b \in BOOLEAN, f \in BOOLEAN : SetChecked(p, b, f)
  \/ UncheckAll
  \/ \E q \in Queries : SetSearchQuery(q)
  \/ \E element \in Elements(world) \cup StaleElements(world) :
       element.contextValue = "unchecked" /\ GetTreeItem(element.p)
  \/ \E element \in Elements(world) \cup StaleElements(world) :
       element.contextValue = "unchecked" /\ GetChildren(element.p)
  \/ GetChildren(<<>>)
  \/ Refresh
  \/ RefreshDone
  \/ ToggleCheckedNoUri
  \/ GetChildrenNoUri
  \/ GetTreeItemNoUri

SpecFault == InitFault /\ [][NextFault]_vars

\* getTreeItem(element) of a directory while toggleChecked awaits a
\* readDirectory of its propagation
GetTreeItemDuringToggle(p) ==
  /\ ops < opsLimit
  /\ task.status = "run"
  /\ task.kind = "toggle"
  /\ IsDirectory(world, p)
  /\ LET g == getDirectorySelectionState(world, checkedItems, cache, p, now)
     IN  /\ cache' = g.c
         /\ last' = Event("getState", p, g.state,
                          getDirectoryState(cache, p, now) = "undefined", 0,
                          last.armed \ {p}, p \in last.armed, last.cleared)
  /\ ops' = ops + 1
  /\ UNCHANGED <<world, opsLimit, second, listing, updateDebounceTimer, profiles, pendingUpdates, filteredFileCache,
               checkedItems, now, searchQuery, task>>

\* sessions in which the view renders while a toggle propagates
OverlapWorlds == {Workspace(FsNest)}

InitOverlap ==
  world \in OverlapWorlds /\ opsLimit = MaxOverlapOps /\ profiles = <<>> /\ Start

NextOverlap ==
  \/ \E element \in Elements(world) : ToggleChecked(element)
  \/ PropagateStep
  \/ \E p \in Targets(world) : Displayed(world, p) /\ GetTreeItem(p)
  \/ \E p \in Targets(world) : Displayed(world, p) /\ GetTreeItemDuringToggle(p)

SpecOverlap == InitOverlap /\ [][NextOverlap]_vars

\* the caches invalidateDirectory is applied to: verdicts of directories
\* and validations of entries, one directory's name a prefix of another's
CachedDirs == {<<"src">>, <<"src2">>, <<"src", "lib">>, <<"docs">>, <<"docs", "src">>}

CachedEntries == {<<"src", "a.ts">>, <<"src2", "a.ts">>, <<"src2">>}

\* the fsPaths invalidateParentDirectories is applied to, with the
\* workspace folder and the separator of their platform: inside the
\* folder, the folder itself, outside of it, the root of the file system
FsPaths ==
  {[sep |-> "/", workspace |-> <<"/", "w">>, x |-> t] :
     t \in {<<"/", "w">>, <<"/", "w", "/", "a">>, <<"/", "w", "/", "a", "/", "b">>,
            <<"/", "w", "/", "a", "b">>, <<"/", "o", "/", "f">>, <<"/">>}}
  \cup
  {[sep |-> "\\", workspace |-> <<"c", ":", "\\", "w">>, x |-> t] :
     t \in {<<"c", ":", "\\", "w">>, <<"c", ":", "\\", "w", "\\", "a">>,
            <<"c", ":", "\\", "w", "\\", "a", "\\", "b">>}}

\* the texts that name x's proper ancestors: what precedes a separator of
\* x, and the root
AncestorTexts(sep, x) ==
  {<<sep>>} \cup {SubSeq(x, 1, i - 1) : i \in {j \in 2..Len(x) : x[j] = sep}}

InitCache ==
  /\ world = Workspace(FsBasic)
  /\ opsLimit = 1
  /\ profiles = <<>>
  /\ checkedItems = EmptyMap
  /\ cache \in {[dir |-> [k \in D |-> [state |-> "all", timestamp |-> 0]],
                  val |-> [k \in V |-> [shouldIgnore |-> FALSE, isValidSize |-> TRUE,
                                        timestamp |-> 0]]] :
                  D \in SUBSET CachedDirs, V \in SUBSET CachedEntries}
  /\ now = 0
  /\ searchQuery = ""
  /\ task = IdleTask
  /\ last \in {[op |-> "probe", fn |-> "invalidateDirectory", p |-> d] :
                  d \in CachedDirs}
               \cup
               {[op |-> "probe", fn |-> "invalidateParentDirectories", at |-> f,
                 keys |-> K] :
                  f \in FsPaths, K \in {{}, UNION {AncestorTexts(g.sep, g.x) \cup {g.x} :
                                                      g \in FsPaths}}}
  /\ ops = 0
  /\ pendingUpdates = {}
  /\ filteredFileCache = EmptyMap
  /\ updateDebounceTimer = NoTimer
  /\ listing = NoListing
  /\ second = NoSecond

\* cache.invalidateDirectory(uri)
InvalidateDirectory ==
  /\ last.op = "probe"
  /\ last.fn = "invalidateDirectory"
  /\ cache' = invalidateDirectory(cache, last.p)
  /\ last' = [op |-> "invalidateDirectory", p |-> last.p, pre |-> cache]
  /\ UNCHANGED <<world, opsLimit, second, listing, updateDebounceTimer, profiles, pendingUpdates, filteredFileCache,
                 checkedItems, now, searchQuery, task, ops>>

\* cache.invalidateParentDirectories(uri)
InvalidateParentDirectories ==
  /\ last.op = "probe"
  /\ last.fn = "invalidateParentDirectories"
  /\ last' = [op |-> "invalidateParentDirectories", at |-> last.at, keys |-> last.keys,
              out |-> walkParents(last.at.sep, [k \in last.keys |-> "all"],
                                  last.at.x, last.at.workspace, Len(last.at.x))]
  /\ UNCHANGED <<world, opsLimit, second, listing, updateDebounceTimer, profiles, pendingUpdates, filteredFileCache,
                 checkedItems, cache, now, searchQuery, task, ops>>

NextCache == InvalidateDirectory \/ InvalidateParentDirectories

SpecCache == InitCache /\ [][NextCache]_vars

\* sessions of view updates on a clock of 10 ms: updateView is called,
\* time passes, the debounce timer fires when it is due
DebounceSteps == {10, 20}

InitDebounce ==
  world = Workspace(FsNest) /\ opsLimit = MaxDebounceOps /\ profiles = <<>> /\ Start

NextDebounce ==
  \/ \E b \in BOOLEAN :
       \E p \in {x \in Targets(world) : Displayed(world, x) /\ Len(x) <= 2} :
         UpdateView(b, p)
  \/ \E d \in DebounceSteps : Elapse(d)
  \/ TimerFires

SpecDebounce ==
  /\ InitDebounce
  /\ [][NextDebounce]_vars
  /\ WF_vars(\E d \in DebounceSteps : Elapse(d))
  /\ WF_vars(TimerFires)

\* sessions of selectAll under a query and of toggles on the cyclic and
\* the wide workspace; a suspended propagation is eventually resumed
InitFilter ==
  world \in GuardWorlds /\ opsLimit = MaxFilterOps /\ profiles = <<>> /\ Start

NextFilter ==
  \/ \E q \in Queries : SetSearchQuery(q)
  \/ SelectAll
  \/ \E element \in Elements(world) : ToggleChecked(element)
  \/ PropagateStep

SpecFilterFair == InitFilter /\ [][NextFilter]_vars /\ WF_vars(PropagateStep)

\* sessions of the view under a search query: the query is set and changed,
\* directories are listed, and listed elements are toggled
ListingWorlds == {Workspace(w) : w \in {FsBasic, FsNest, FsElig, FsHollow}}

ListingQueries == {"", "*.ts", "*.js", "pkg/s", "g.ts", "*.T*"}

InitListing ==
  world \in ListingWorlds /\ opsLimit = MaxListingOps /\ profiles = <<>> /\ Start

NextListing ==
  \/ \E q \in ListingQueries : SetSearchQuery(q)
  \/ \E d \in {<<>>} \cup {x \in Targets(world) : Displayed(world, x)} : GetChildren(d)
  \/ \E element \in Elements(world) : ToggleChecked(element)
  \/ PropagateStep

SpecListing == InitListing /\ [][NextListing]_vars

\* sessions in which the query is changed while a getChildren call is
\* suspended in its filter loop
InflightWorlds == {Workspace(w) : w \in {FsBasic, FsNest}}

InitInflight ==
  world \in InflightWorlds /\ opsLimit = MaxInflightOps /\ profiles = <<>> /\ Start

NextInflight ==
  \/ \E q \in ListingQueries : SetSearchQuery(q)
  \/ \E d \in {<<>>} \cup {x \in Targets(world) : Displayed(world, x)} : GetChildren(d)
  \/ \E d \in {<<>>} \cup {x \in Targets(world) : Displayed(world, x)} :
       BeginGetChildren(d)
  \/ ResumeGetChildren

SpecInflight == InitInflight /\ [][NextInflight]_vars

\* sessions in which a toggle or uncheckAll is issued while the
\* propagation of an earlier toggle is suspended
ConcurrentWorlds == {Workspace(w) : w \in {FsBasic, FsNest}}

InitConcurrent ==
  world \in ConcurrentWorlds /\ opsLimit = MaxConcurrentOps /\ profiles = <<>> /\ Start

NextConcurrent ==
  \/ \E element \in Elements(world) : ToggleChecked(element)
  \/ PropagateStep
  \/ \E element \in Elements(world) : ToggleCheckedDuringPropagation(element)
  \/ UncheckAllDuringPropagation
  \/ PropagateSecond

SpecConcurrent == InitConcurrent /\ [][NextConcurrent]_vars

\* sessions of the profile commands: the selection is changed, and
\* profiles are saved, deleted and renamed under several names
ManyNames == {"p", "q", "r"}

InitProfiles ==
  world = Workspace(FsNest) /\ opsLimit = MaxProfileOps /\ profiles = <<>> /\ Start

NextProfiles ==
  \/ \E p \in {x \in Targets(world) : ~IsDirectory(world, x)}, b \in BOOLEAN :
       SetChecked(p, b, FALSE)
  \/ \E name \in ManyNames : SaveProfile(name)
  \/ \E name \in ManyNames : DeleteProfile(name)
  \/ \E oldName \in ManyNames, newName \in ManyNames : RenameProfile(oldName, newName)

SpecProfiles == InitProfiles /\ [][NextProfiles]_vars

\* the rules and the root-relative paths matchesPattern is applied to
GlobPatterns ==
  {<<"*", ".", "l", "o", "g">>,
   <<"n", "o", "d", "e", "_", "m", "o", "d", "u", "l", "e", "s", "/", "*", "*">>,
   <<"a", "?", "c">>,
   <<"a", ".", "t", "s">>,
   <<"*", "*">>,
   <<"*">>,
   <<"s", "r", "c", "/", "*", ".", "t", "s">>,
   <<"l", "i", "b", "/", "g", "e", "n">>}

GlobPaths ==
  {<<"d", "e", "b", "u", "g", ".", "l", "o", "g">>,
   <<"a", ".", "l", "o", "g">>,
   <<"n", "o", "d", "e", "_", "m", "o", "d", "u", "l", "e", "s", "/", "a", "/", "b", ".", "j", "s">>,
   <<"n", "o", "d", "e", "_", "m", "o", "d", "u", "l", "e", "s", "/", ".", "a">>,
   <<"a", "b", "c">>,
   <<"a", "b", "]", "c">>,
   <<"a", ".", "t", "s">>,
   <<"a", "x", "t", "s">>,
   <<"A", ".", "t", "s">>,
   <<"s", "r", "c", "/", "a", ".", "t", "s">>,
   <<"s", "r", "c", "/", "x", "/", "a", ".", "t", "s">>,
   <<"l", "i", "b", "/", "g", "e", "n">>,
   <<"l", "i", "b", "/", "g", "e", "n", "/", "g", ".", "t", "s">>}

ConfiguredMaxima == {0, 20, DefaultMaxFileSize}

FileSizes == {0, 1, 20, 21, DefaultMaxFileSize, DefaultMaxFileSize + 1}

\* the calls of the two checks of RepomixConfigUtil that are tried: a rule
\* on a path, and a file under a configuration
Probes ==
  {[op |-> "probe", fn |-> "matchesPattern", path |-> x, pattern |-> pat] :
     x \in GlobPaths, pat \in GlobPatterns}
  \cup
  {[op |-> "probe", fn |-> "isFileSizeValid", cfg |-> c, file |-> f] :
     c \in {[set |-> FALSE, value |-> 0]}
             \cup {[set |-> TRUE, value |-> v] : v \in ConfiguredMaxima},
     f \in {[exists |-> FALSE, statOk |-> FALSE, size |-> 0]}
             \cup {[exists |-> TRUE, statOk |-> ok, size |-> n] :
                     ok \in BOOLEAN, n \in FileSizes}}

InitConfig ==
  /\ world = Workspace(FsElig)
  /\ opsLimit = 1
  /\ profiles = <<>>
  /\ checkedItems = EmptyMap
  /\ cache = EmptyCache
  /\ now = 0
  /\ searchQuery = ""
  /\ task = IdleTask
  /\ last \in Probes
  /\ ops = 0
  /\ pendingUpdates = {}
  /\ filteredFileCache = EmptyMap
  /\ updateDebounceTimer = NoTimer
  /\ listing = NoListing
  /\ second = NoSecond

\* matchesPattern(filePath, pattern)
MatchesPattern ==
  /\ last.op = "probe"
  /\ last.fn = "matchesPattern"
  /\ last' = [op |-> "matchesPattern", path |-> last.path, pattern |-> last.pattern,
              res |-> matchesPattern(last.path, last.pattern)]
  /\ UNCHANGED <<world, opsLimit, second, listing, updateDebounceTimer, profiles, pendingUpdates, filteredFileCache,
                 checkedItems, cache, now, searchQuery, task, ops>>

\* isFileSizeValid(filePath)
IsFileSizeValid ==
  /\ last.op = "probe"
  /\ last.fn = "isFileSizeValid"
  /\ last' = [op |-> "isFileSizeValid", cfg |-> last.cfg, file |-> last.file,
              res |-> sizeWithinLimit(last.cfg, last.file)]
  /\ UNCHANGED <<world, opsLimit, second, listing, updateDebounceTimer, profiles, pendingUpdates, filteredFileCache,
                 checkedItems, cache, now, searchQuery, task, ops>>

NextConfig == MatchesPattern \/ IsFileSizeValid

SpecConfig == InitConfig /\ [][NextConfig]_vars

\* the event loop runs every continuation whose await has settled
InitFair ==
  /\ world \in GuardWorlds
  /\ opsLimit = MaxFairOps
  /\ profiles \in {<<>>, <<[name |-> "p", paths |-> {}]>>}
  /\ Start

SpecGuardFair == InitFair /\ [][Next]_vars /\ WF_vars(PropagateStep)

\* a session that finds a profile stored by an earlier one (workspaceState
\* outlives the provider): the paths of up to two entries of the workspace
SessionWorlds == {Workspace(w) : w \in {FsNest, FsHollow}}

StoredPaths(w) ==
  {S \in SUBSET {fsPath(x) : x \in Targets(w)} : Cardinality(S) <= 2}

InitSession ==
  /\ world \in SessionWorlds
  /\ opsLimit = MaxSessionOps
  /\ profiles \in {<<>>} \cup {<<[name |-> "p", paths |-> S]>> : S \in StoredPaths(world)}
  /\ Start

SpecSession == InitSession /\ [][Next]_vars

\* ============================================================ properties
AllPaths(w) == PathsBelow(w, <<>>, MaxPathLen)

Descendants(w, d) == PathsBelow(w, d, MaxPathLen) \ {d}

ChildrenOf(w, d) == {x \in Descendants(w, d) : Len(x) = Len(d) + 1}

\* x lies below d and no entry from below d down to x is ignored
RECURSIVE NotIgnoredBelow(_, _, _)
NotIgnoredBelow(w, d, x) ==
  /\ Len(x) > Len(d)
  /\ SubSeq(x, 1, Len(d)) = d
  /\ ~shouldIgnoreFile(w, x)
  /\ (Len(x) = Len(d) + 1 \/ NotIgnoredBelow(w, d, Front(x)))

\* x is an eligible descendant of d reached through eligible directories
EligibleBelow(w, d, x) == NotIgnoredBelow(w, d, x) /\ Eligible(w, x)

Bit(ci, x) == IF x \in DOMAIN ci THEN IF ci[x] THEN "true" ELSE "false" ELSE "unset"

\* the verdict of d as the store alone determines it (no cache consulted)
RECURSIVE Verdict(_, _, _)
Verdict(w, ci, d) ==
  IF ReadFails(w, d) THEN "none"
  ELSE LET kids == {x \in ChildrenOf(w, d) : Eligible(w, x)}
           Counts(x) == IF IsDirectory(w, x) THEN Verdict(w, ci, x) = "all"
                        ELSE IsChecked(ci, x)
       IN  IF \E x \in kids : IsDirectory(w, x) /\ Verdict(w, ci, x) = "partial"
           THEN "partial"
           ELSE IF \A x \in kids : ~Counts(x) THEN "none"
           ELSE IF \A x \in kids : Counts(x) THEN "all"
           ELSE "partial"

\* the verdict of d as aggregated from its eligible children, a
\* subdirectory contributing the verdict getDirectorySelectionState has
\* for it (c, t: the caches and the time right after the query)
ChildVerdict(w, c, t, x) == IF ReadFails(w, x) THEN "none" ELSE getDirectoryState(c, x, t)

Aggregated(w, ci, c, t, d) ==
  LET kids == {x \in ChildrenOf(w, d) : Eligible(w, x)}
      Counts(x) == IF IsDirectory(w, x) THEN ChildVerdict(w, c, t, x) = "all"
                   ELSE IsChecked(ci, x)
  IN  IF \E x \in kids : IsDirectory(w, x) /\ ChildVerdict(w, c, t, x) = "partial"
      THEN "partial"
      ELSE IF \A x \in kids : ~Counts(x) THEN "none"
      ELSE IF \A x \in kids : Counts(x) THEN "all"
      ELSE "partial"

Completed(kinds) == last.op = "step" /\ task.status = "done" /\ task.kind \in kinds

\* C1: once getDirectorySelectionState has cached `all` for D, after
\* setChecked(a, false, true) on an eligible file a below D the next
\* getDirectorySelectionState of D and of every ancestor of a returns the
\* verdict recomputed from the current SelectionStore.
C1_FreshAfterSetChecked ==
  (last.op = "getState" /\ last.wasArmed)
    => last.res = Verdict(world, checkedItems, last.arg)

\* C2: when toggleChecked(D) on a directory completes within the guard,
\* every eligible descendant of D reached through non-ignored directories
\* holds D's new bit, and every other entry below D keeps the bit it had
\* before the toggle.
C2_RecursivePropagation ==
  (Completed({"toggle"}) /\ ~task.tripped /\ Cardinality(task.visited) <= MaxVisited)
    => /\ task.checked = ~IsChecked(task.pre, task.target)
       /\ IsChecked(checkedItems, task.target) = task.checked
       /\ \A x \in Descendants(world, task.target) :
            IF EligibleBelow(world, task.target, x)
            THEN x \in DOMAIN checkedItems /\ checkedItems[x] = task.checked
            ELSE Bit(checkedItems, x) = Bit(task.pre, x)

C2_Witness ==
  /\ Completed({"toggle"})
  /\ ~task.tripped
  /\ \E x \in Descendants(world, task.target) :
       /\ ~EligibleBelow(world, task.target, x)
       /\ IsChecked(checkedItems, x) # task.checked
  /\ \E x \in Descendants(world, task.target) :
       EligibleBelow(world, task.target, x) /\ IsChecked(checkedItems, x) = task.checked

\* the state in which the view asks for D right after toggleChecked(D)
\* has set D to checked
AskedAfterToggleOn ==
  /\ last.op = "getState"
  /\ task.status = "done"
  /\ task.kind = "toggle"
  /\ task.checked
  /\ ~task.tripped
  /\ last.arg = task.target

HasEligibleChild(w, d) == \E x \in ChildrenOf(w, d) : Eligible(w, x)

\* C3 as stated: after toggleChecked(D) has set a directory D with at
\* least one eligible child to checked, getDirectorySelectionState(D)
\* returns `all` for every tree shape within the guard.
C3_AllAfterToggle ==
  (AskedAfterToggleOn /\ HasEligibleChild(world, task.target)) => last.res = "all"

NoHollowDirectory(w, d) ==
  /\ HasEligibleChild(w, d)
  /\ \A x \in Descendants(w, d) :
       (IsDirectory(w, x) /\ EligibleBelow(w, d, x)) => HasEligibleChild(w, x)

\* C3 amended: after toggleChecked(D) has set D to checked within the
\* guard, getDirectorySelectionState(D) returns `all` provided D and every
\* eligible directory below D has at least one eligible child.
C3_AllAfterToggleAmended ==
  (AskedAfterToggleOn /\ NoHollowDirectory(world, task.target)) => last.res = "all"

C3_Witness ==
  /\ AskedAfterToggleOn
  /\ NoHollowDirectory(world, task.target)
  /\ \E x \in ChildrenOf(world, task.target) : IsDirectory(world, x)
  /\ last.miss
  /\ last.res = "all"

\* C4: on a cache miss getDirectorySelectionState(D) is `partial` if an
\* eligible child directory is `partial`, else `none` if no eligible child
\* counts as checked, else `all` if every eligible child counts as
\* checked, else `partial`; ignored and oversized entries and D's own bit
\* play no part, nor does the order of the entries.
C4_TriStateAggregation ==
  (last.op = "getState" /\ last.miss)
    => last.res = Aggregated(world, checkedItems, cache, now, last.arg)

C4_Witness ==
  /\ last.op = "getState"
  /\ last.miss
  /\ last.res = "partial"
  /\ IsChecked(checkedItems, last.arg)
  /\ \E x \in ChildrenOf(world, last.arg) :
       /\ IsDirectory(world, x)
       /\ ChildVerdict(world, cache, now, x) = "partial"
  /\ \A x \in ChildrenOf(world, last.arg) :
       ~IsDirectory(world, x) => ~IsChecked(checkedItems, x)

\* C5: when selectAll() (with or without a query) has completed, no
\* directory verdict cached before it is still served for a directory one
\* of whose descendants it has set to checked.
C5_SelectAllInvalidates ==
  Completed({"selectAll", "selectFiltered"})
    => \A d \in DOMAIN cache.dir :
         getDirectoryState(cache, d, now) # "undefined"
           => \A x \in Descendants(world, d) :
                IsChecked(checkedItems, x) = IsChecked(task.pre, x)

\* C6: uncheckAll() clears both caches together with the store, so every
\* getDirectorySelectionState issued until something is checked again
\* returns `none`.
C6_UncheckAllClearsCaches ==
  /\ last.op = "uncheckAll" => cache = EmptyCache
  /\ (last.op = "getState" /\ last.cleared) => last.res = "none"

\* no directory occurs twice on the way from the root down to x
CycleFree(w, x) ==
  \A i, j \in 0..Len(x) :
    (i < j /\ IsDirectory(w, SubSeq(x, 1, j)))
      => ReadDir(w, SubSeq(x, 1, i)) # ReadDir(w, SubSeq(x, 1, j))

\* C7: toggleChecked on a directory, and selectAll without a query, set
\* every eligible descendant that is reachable without passing through a
\* cycle and lies at most as deep as the guard, however many directories
\* the structure holds.
C7_FullSelection ==
  Completed({"toggle", "selectAll"})
    => \A x \in Descendants(world, task.target) :
         ( /\ EligibleBelow(world, task.target, x)
           /\ CycleFree(world, x)
           /\ Len(x) - Len(task.target) <= MaxVisited )
           => (x \in DOMAIN checkedItems /\ checkedItems[x] = task.checked)

\* C8: toggleChecked on a directory terminates, within the guard's number
\* of directory reads, also on a cyclic or over-deep structure, and then
\* fires its re-render notification.
C8_ToggleTerminates ==
  /\ [](task.kind = "toggle" => task.reads <= MaxVisited)
  /\ ((task.status = "run" /\ task.kind = "toggle")
        ~> (Completed({"toggle"}) /\ last.fired = 1))

C8_Witness ==
  /\ world.root = FsCycle.root
  /\ Completed({"toggle"})
  /\ task.tripped
  /\ last.fired = 1

Oversized(w, x) ==
  /\ x # <<>>
  /\ ~IsDirectory(w, x)
  /\ w.size[Last(x)] > (IF w.maxFileSize # 0 THEN w.maxFileSize ELSE DefaultMaxFileSize)

NewlyChecked == {x \in DOMAIN checkedItems : checkedItems[x] /\ ~IsChecked(task.pre, x)}

MatchingFileBelow(w, q, d, selectable) ==
  \E y \in Descendants(w, d) :
    /\ ~IsDirectory(w, y)
    /\ NotIgnoredBelow(w, d, y)
    /\ matchesSearchQuery(q, y)
    /\ (selectable => isFileSizeValid(w, y))

FilteredTarget(w, q, x, selectable) ==
  /\ ~shouldIgnoreFile(w, x)
  /\ IF IsDirectory(w, x) THEN MatchingFileBelow(w, q, x, selectable)
     ELSE matchesSearchQuery(q, x) /\ isFileSizeValid(w, x)

FilteredOnly(selectable) ==
  Completed({"selectFiltered"})
    => \A x \in NewlyChecked :
         /\ FilteredTarget(world, searchQuery, x, selectable)
         /\ \A a \in ParentChain(x) \ {<<>>} :
              FilteredTarget(world, searchQuery, a, selectable)

\* C9 as stated: with a query active selectAll() checks only matching,
\* non-ignored, size-valid files and non-ignored directories that contain
\* a matching descendant file that is itself selectable.
C9_FilteredSelectAll == FilteredOnly(TRUE)

\* C9 amended: ... and non-ignored directories that contain, through
\* non-ignored directories, a non-ignored descendant file matching the
\* query, whether or not that file is within the size limit.
C9_FilteredSelectAllAmended == FilteredOnly(FALSE)

C9_Witness ==
  /\ Completed({"selectFiltered"})
  /\ \E x \in NewlyChecked : IsDirectory(world, x)
                             /\ ~MatchingFileBelow(world, searchQuery, x, TRUE)
  /\ \E x \in NewlyChecked : ~IsDirectory(world, x)
  /\ \E x \in AllPaths(world) :
       /\ Oversized(world, x)
       /\ matchesSearchQuery(searchQuery, x)
       /\ ~IsChecked(checkedItems, x)

\* the store with the bit of every oversized file directly in d set to b
WithOversized(w, ci, d, b) ==
  LET big == {x \in ChildrenOf(w, d) : Oversized(w, x)}
  IN  [x \in (DOMAIN ci) \cup big |-> IF x \in big THEN b ELSE ci[x]]

\* C10: a file larger than the configured maximum is never set to checked
\* by selectAll() or by toggling an ancestor directory, and it counts
\* neither in the total nor as checked in a directory's verdict.
C10_SizeLimitExclusion ==
  /\ task.status \in {"run", "done"}
       => \A x \in AllPaths(world) :
            (Oversized(world, x) /\ IsChecked(checkedItems, x))
              => IsChecked(task.pre, x)
  /\ (last.op = "getState" /\ last.miss)
       => \A b \in BOOLEAN :
            last.res = Aggregated(world, WithOversized(world, checkedItems, last.arg, b),
                                  cache, now, last.arg)

C10_Witness ==
  /\ AskedAfterToggleOn
  /\ last.miss
  /\ last.res = "all"
  /\ \E x \in ChildrenOf(world, last.arg) :
       Oversized(world, x) /\ ~shouldIgnoreFile(world, x) /\ ~IsChecked(checkedItems, x)

\* the identities whose stored bit is true
Checked(ci) == {k \in DOMAIN ci : ci[k]}

\* the identities the paths of the stored profile stand for
ProfileKeys(name) == {UriFile(s) : s \in loadProfile(profiles, name).paths}

\* C11: after the load sequence of a profile (uncheckAll, setChecked(path,
\* true, false) for each of its paths, updateView), with no other operation
\* in flight, every path of the profile is checked and no identity that
\* was checked before the load and is absent from the profile is checked.
C11_ProfileLoadExact ==
  last.op = "loadProfile" =>
    /\ \A k \in ProfileKeys(last.res) : IsChecked(checkedItems, k)
    /\ \A k \in Checked(last.pre) \ ProfileKeys(last.res) : ~IsChecked(checkedItems, k)

C11_Witness ==
  /\ last.op = "loadProfile"
  /\ ProfileKeys(last.res) # {}
  /\ Checked(last.pre) \ ProfileKeys(last.res) # {}

\* C12: loading a profile that holds the getCheckedItems() of a selection
\* state (uncheckAll, then setChecked(path, true, false) for each saved
\* path) yields a getCheckedItems() equal, as a set, to the saved one.
C12_ProfileRoundTrip ==
  last.op = "loadProfile" =>
    getCheckedItems(checkedItems) = loadProfile(profiles, last.res).paths

C12_Witness ==
  /\ last.op = "loadProfile"
  /\ Checked(last.pre) = {}
  /\ Cardinality(getCheckedItems(checkedItems)) = 2
  /\ fsPath(<<"pkg", "M.TS">>) \in getCheckedItems(checkedItems)

\* C13: toggling one leaf file an even number of times in a row leaves its
\* stored bit and getCheckedItems() as they were before the first toggle,
\* an odd number of times flips the bit; the calls follow each other
\* without an await between them and whatever contextValue the element
\* carries.
C13_TogglePairs ==
  last.op = "toggleFile" =>
    LET was  == IsChecked(last.pre, last.target)
        even == last.streak % 2 = 0
    IN  /\ IsChecked(checkedItems, last.target) = (IF even THEN was ELSE ~was)
        /\ getCheckedItems(checkedItems) =
             IF even THEN getCheckedItems(last.pre)
             ELSE IF was THEN getCheckedItems(last.pre) \ {fsPath(last.target)}
             ELSE getCheckedItems(last.pre) \cup {fsPath(last.target)}

C13_Witness ==
  /\ last.op = "toggleFile"
  /\ last.streak = 2
  /\ IsChecked(last.pre, last.target)
  /\ IsChecked(checkedItems, last.target)

\* C14: refresh() empties the SelectionStore, both caches and the filtered
\* listing cache in one step, before it awaits the configuration:
\* getCheckedItems() is empty as soon as it has been called, and while it
\* is suspended every verdict and every listing a reader finds cached was
\* computed from the emptied store.
C14_RefreshAtomic ==
  /\ last.op = "refresh" =>
       /\ getCheckedItems(checkedItems) = {}
       /\ checkedItems = EmptyMap
       /\ cache = EmptyCache
       /\ filteredFileCache = EmptyMap
  /\ (task.status = "run" /\ task.kind = "refresh") =>
       /\ getCheckedItems(checkedItems) = {}
       /\ \A d \in DOMAIN cache.dir : cache.dir[d].state = "none"
       /\ \A d \in DOMAIN filteredFileCache :
            \A i \in 1..Len(filteredFileCache[d]) :
              filteredFileCache[d][i].contextValue = "unchecked"

C14_Witness ==
  /\ last.op = "refresh"
  /\ task.status = "run"
  /\ last.found >= 2
  /\ last.cached

\* C15: immediately after uncheckAll() getCheckedItems() is empty,
\* whatever and however many identities were checked before, and the call
\* has fired exactly one change notification.
C15_UncheckAllEmpties ==
  last.op = "uncheckAll" =>
    /\ getCheckedItems(checkedItems) = {}
    /\ last.fired = 1

C15_Witness ==
  /\ last.op = "uncheckAll"
  /\ last.found >= 3
  /\ getCheckedItems(checkedItems) = {}

\* C16: updateView(), with or without an element, and the debounced
\* notification it schedules leave getCheckedItems() as it was.
C16_SoftUpdateKeepsSelection ==
  [][(\/ last'.op = "updateView" /\ ops' = ops + 1
      \/ last'.op = "debounced" /\ pendingUpdates # {} /\ pendingUpdates' = {})
       => /\ getCheckedItems(checkedItems') = getCheckedItems(checkedItems)
          /\ checkedItems' = checkedItems]_vars

C16_Witness ==
  /\ last.op = "debounced"
  /\ pendingUpdates = {}
  /\ Cardinality(getCheckedItems(checkedItems)) >= 2

\* the stores ci and cj agree on every identity other than k
SameExcept(ci, cj, k) ==
  \A x \in (DOMAIN ci \cup DOMAIN cj) \ {k} :
    x \in DOMAIN ci /\ x \in DOMAIN cj /\ ci[x] = cj[x]

C18_NotificationCount ==
  /\ last.op = "setChecked" => last.fired = (IF last.res = "fire" THEN 1 ELSE 0)
  /\ last.op = "toggleFile" => last.fired = 1
  /\ last.op \in {"toggle", "selectAll"} => (task.status = "run" /\ last.fired = 0)
  /\ last.op = "step" => last.fired = (IF task.status = "done" THEN 1 ELSE 0)

C18_Witness ==
  /\ last.op = "step"
  /\ task.status = "done"
  /\ task.kind = "selectAll"
  /\ last.fired = 1
  /\ Checked(checkedItems) # {}

\* C19: when the change notification of a mutating operation fires, the
\* operation has applied all its SelectionStore writes: no propagation of
\* it is still to run, and the store stays as the listener finds it until
\* the next operation is issued.
C19_DataBeforeSignal ==
  /\ [](( /\ last.fired >= 1
          /\ last.op \in {"toggleFile", "toggle", "step", "selectAll", "setChecked",
                          "uncheckAll", "refreshed", "loadProfile"})
         => task.status # "run")
  /\ [][( /\ last.fired >= 1
          /\ last.op \in {"toggleFile", "toggle", "step", "selectAll", "setChecked",
                          "uncheckAll", "refreshed", "loadProfile"}
          /\ ops' = ops)
         => checkedItems' = checkedItems]_vars

C19_Witness ==
  /\ last.op = "step"
  /\ last.fired = 1
  /\ task.kind = "toggle"
  /\ task.checked
  /\ Cardinality(Checked(checkedItems)) >= 3

\* C20: a get never returns a verdict or a validation whose age is the
\* expiry window or more, swept or not, and cleanExpired removes only
\* entries the gets treat as absent: after a sweep every get returns what
\* it returned before.
C20_ExpiryOnRead ==
  /\ \A k \in DOMAIN cache.dir :
       now - cache.dir[k].timestamp >= cacheExpirationMs
         => getDirectoryState(cache, k, now) = "undefined"
  /\ \A k \in DOMAIN cache.val :
       now - cache.val[k].timestamp >= cacheExpirationMs
         => ~HasFileValidation(cache, k, now)
  /\ \A k \in DOMAIN cache.dir :
       getDirectoryState(cleanExpired(cache, now), k, now)
         = getDirectoryState(cache, k, now)
  /\ \A k \in DOMAIN cache.val :
       /\ HasFileValidation(cleanExpired(cache, now), k, now)
            = HasFileValidation(cache, k, now)
       /\ HasFileValidation(cache, k, now)
            => getFileValidation(cleanExpired(cache, now), k)
                 = getFileValidation(cache, k)

C20_Witness ==
  /\ \E k \in DOMAIN cache.dir :
       /\ now - cache.dir[k].timestamp >= cacheExpirationMs
       /\ cache.dir[k].state = "all"
  /\ \E k \in DOMAIN cache.val : now - cache.val[k].timestamp >= cacheExpirationMs
  /\ last.op = "getState"
  /\ last.miss

\* the directories at or below d whose readDirectory fails
FailingBelow(w, d) ==
  {y \in {d} \cup Descendants(w, d) : IsDirectory(w, y) /\ IsDenied(w, y)}

\* the entries of the directories at or below d that cannot be read
Unlisted(w, d) ==
  UNION {{Append(y, ReadDir(w, y)[i]) : i \in 1..Len(ReadDir(w, y))} :
           y \in FailingBelow(w, d)}

C22_NoExceptionToHost ==
  /\ last.res # "rejected"
  /\ (last.op = "getChildren" /\ ReadFails(world, last.arg)) => last.items = <<>>
  /\ (last.op = "getState" /\ ReadFails(world, last.arg)) => last.res = "none"
  /\ last.op = "toggleNoUri" => (last.fired = 0 /\ checkedItems = last.pre)

\* C23: every getChildren and every getTreeItem, for whatever node and in
\* whatever state and order the view issues them, leaves the SelectionStore
\* as it was; they write to the caches only.
C23_RenderingReadOnly ==
  [][(last'.op \in {"getChildren", "getState"} /\ ops' = ops + 1)
       => /\ checkedItems' = checkedItems
          /\ getCheckedItems(checkedItems') = getCheckedItems(checkedItems)]_vars

C23_Witness ==
  /\ last.op = "getChildren"
  /\ \E i \in 1..Len(last.items) : last.items[i].contextValue = "checked"
  /\ \E i \in 1..Len(last.items) : last.items[i].p \notin DOMAIN checkedItems
  /\ cache.val # EmptyMap
  /\ cache.dir # EmptyMap

\* C24: the array getCheckedItems() returns holds the path of every
\* identity whose stored bit is true, file or directory, each exactly
\* once, and of no identity whose bit is false or was never set.
C24_CheckedItemsExact ==
  LET a == checkedPaths(checkedItems, DOMAIN checkedItems)
  IN  /\ \A k \in Checked(checkedItems) : \E i \in 1..Len(a) : a[i] = fsPath(k)
      /\ \A i, j \in 1..Len(a) : a[i] = a[j] => i = j
      /\ \A k \in AllPaths(world) :
           ~IsChecked(checkedItems, k) => \A i \in 1..Len(a) : a[i] # fsPath(k)
      /\ {a[i] : i \in 1..Len(a)} = getCheckedItems(checkedItems)

C24_Witness ==
  /\ \E k \in Checked(checkedItems) : IsDirectory(world, k)
  /\ \E k \in Checked(checkedItems) : ~IsDirectory(world, k)
  /\ \E k \in DOMAIN checkedItems : ~checkedItems[k]
  /\ \E k \in Targets(world) : k \notin DOMAIN checkedItems
  /\ Len(checkedPaths(checkedItems, DOMAIN checkedItems)) = 2

\* C25: two toggleChecked calls on two distinct unchecked files, the second
\* issued right after the first without awaiting it, both take effect:
\* afterwards both files are checked.
C25_BothTogglesApply ==
  ( /\ last.op = "toggleFile"
    /\ last.prev # <<>>
    /\ last.prev # last.target
    /\ ~IsChecked(last.prevWas, last.prev)
    /\ ~IsChecked(last.prevWas, last.target) )
    => /\ IsChecked(checkedItems, last.prev)
       /\ IsChecked(checkedItems, last.target)
       /\ {fsPath(last.prev), fsPath(last.target)} \subseteq getCheckedItems(checkedItems)

C25_Witness ==
  /\ last.op = "toggleFile"
  /\ last.prev # <<>>
  /\ last.prev # last.target
  /\ Front(last.prev) = Front(last.target)
  /\ ~IsChecked(last.prevWas, last.prev)
  /\ ~IsChecked(last.prevWas, last.target)
  /\ IsChecked(checkedItems, last.prev)
  /\ IsChecked(checkedItems, last.target)

\* the glob semantics of the rules: pat from position i on against text
\* from position j on
RECURSIVE GlobMatch(_, _, _, _)
GlobMatch(pat, i, text, j) ==
  IF i > Len(pat) THEN j > Len(text)
  ELSE IF pat[i] = "*" /\ i < Len(pat) /\ pat[i + 1] = "*"
       THEN \E k \in j..(Len(text) + 1) : GlobMatch(pat, i + 2, text, k)
  ELSE IF pat[i] = "*"
       THEN \E k \in j..(Len(text) + 1) :
              /\ \A m \in j..(k - 1) : text[m] # "/"
              /\ GlobMatch(pat, i + 1, text, k)
  ELSE IF pat[i] = "?"
       THEN j <= Len(text) /\ GlobMatch(pat, i + 1, text, j + 1)
  ELSE j <= Len(text) /\ text[j] = pat[i] /\ GlobMatch(pat, i + 1, text, j + 1)

\* C26: a rule matches a root-relative path by the glob semantics: `**`
\* any sequence of characters, separators included, `*` any run of
\* characters without a separator, `?` exactly one character, every other
\* character (the dot too) itself, case-sensitively; so `*.log` matches
\* debug.log and `node_modules/**` every path below node_modules.
C26_GlobSemantics ==
  last.op = "matchesPattern" => last.res = GlobMatch(last.pattern, 1, last.path, 1)

\* C27: a file is within the limit exactly when it exists, its stat
\* succeeds and its size is at most the configured maximum, whatever
\* maximum is configured; the maximum is 50,000,000 when none is.
C27_SizeCheck ==
  /\ DefaultMaxFileSize = 50000000
  /\ last.op = "isFileSizeValid"
       => last.res = ( /\ last.file.exists
                       /\ last.file.statOk
                       /\ last.file.size <= (IF last.cfg.set THEN last.cfg.value
                                             ELSE DefaultMaxFileSize) )

Named(ps, name) == {i \in 1..Len(ps) : ps[i].name = name}

\* C28: saveProfile(name, paths) is an upsert keyed by name: afterwards
\* the stored list holds exactly one profile of that name, with the given
\* paths; an existing name is replaced at its position, a new one is
\* appended at the end; the other profiles are unchanged, in their order.
C28_SaveProfileUpserts ==
  last.op = "saveProfile" =>
    /\ Cardinality(Named(profiles, last.name)) = 1
    /\ \A i \in Named(profiles, last.name) : profiles[i].paths = last.paths
    /\ IF Named(last.pre, last.name) # {}
       THEN /\ Len(profiles) = Len(last.pre)
            /\ Named(profiles, last.name) = Named(last.pre, last.name)
            /\ \A i \in 1..Len(last.pre) :
                 i \notin Named(last.pre, last.name) => profiles[i] = last.pre[i]
       ELSE /\ Len(profiles) = Len(last.pre) + 1
            /\ Named(profiles, last.name) = {Len(profiles)}
            /\ \A i \in 1..Len(last.pre) : profiles[i] = last.pre[i]

C28_Witness ==
  /\ last.op = "saveProfile"
  /\ Len(last.pre) >= 2
  /\ last.pre[1].name = last.name
  /\ last.pre[1].paths # last.paths
  /\ last.paths # {}

\* C29: deleteProfile(name) returns true and removes the profile iff a
\* profile of that name exists; renameProfile(old, new) returns false when
\* no profile is named old or when new is the name of another profile;
\* whenever false is returned the stored list is not updated.
C29_FailureLeavesProfiles ==
  /\ last.op = "deleteProfile" =>
       /\ last.ok = (Named(last.pre, last.name) # {})
       /\ last.ok => Named(profiles, last.name) = {}
       /\ ~last.ok => ~last.updated /\ profiles = last.pre
  /\ last.op = "renameProfile" =>
       /\ Named(last.pre, last.name) = {} => ~last.ok
       /\ (\E i \in Named(last.pre, last.name), j \in Named(last.pre, last.newName) :
             i # j) => ~last.ok
       /\ ~last.ok => ~last.updated /\ profiles = last.pre

C29_Witness ==
  /\ last.op = "renameProfile"
  /\ ~last.ok
  /\ Named(last.pre, last.name) # {}
  /\ last.pre[1].paths # {}

\* C30: no verdict cached for the toggled directory or for one of its
\* ancestors by a getDirectorySelectionState that ran while the
\* propagation was suspended is served after the toggle has completed
\* when it differs from the verdict recomputed from the final store.
C30_InvalidationAfterMutation ==
  ( /\ last.op = "getState"
    /\ ~last.miss
    /\ task.kind = "toggle"
    /\ task.status = "done"
    /\ IsDirectory(world, task.target)
    /\ last.arg \in {task.target} \cup ParentChain(task.target) )
  => last.res = getDirectorySelectionState(world, checkedItems, EmptyCache,
                                           last.arg, now).state

\* C40: starting from a stored list without duplicate names, after any
\* sequence of saveProfile, deleteProfile and renameProfile calls no two
\* stored profiles have the same name.
C40_ProfileNamesUnique ==
  \A i \in 1..Len(profiles), j \in 1..Len(profiles) :
    profiles[i].name = profiles[j].name => i = j

C40_Witness ==
  /\ last.op = "renameProfile"
  /\ last.ok
  /\ last.name # last.newName
  /\ Len(profiles) >= 2

\* k is d or lies below d
AtOrBelow(k, d) == Len(k) >= Len(d) /\ SubSeq(k, 1, Len(d)) = d

\* C34: invalidateDirectory(dir) removes the verdict and validation
\* entries of dir and of every path below dir and nothing else: the
\* entries of the other paths, such as a sibling whose name starts with
\* the name of dir, stay as they were.
C34_InvalidateSubtreeOnly ==
  last.op = "invalidateDirectory" =>
    /\ DOMAIN cache.dir = {k \in DOMAIN last.pre.dir : ~AtOrBelow(k, last.p)}
    /\ DOMAIN cache.val = {k \in DOMAIN last.pre.val : ~AtOrBelow(k, last.p)}
    /\ \A k \in DOMAIN cache.dir : cache.dir[k] = last.pre.dir[k]
    /\ \A k \in DOMAIN cache.val : cache.val[k] = last.pre.val[k]

\* C35: invalidateParentDirectories(x) ends for every x, removes the
\* verdict entry of every proper ancestor of x from its parent up to and
\* including the workspace folder, and leaves the entries of the
\* directories that are not ancestors of x.
C35_InvalidateAncestors ==
  last.op = "invalidateParentDirectories" =>
    /\ last.out.ended
    /\ \A k \in last.keys \ DOMAIN last.out.dir :
         k \in AncestorTexts(last.at.sep, last.at.x)
    /\ \A k \in last.keys \cap AncestorTexts(last.at.sep, last.at.x) :
         ( /\ Len(k) >= Len(last.at.workspace)
           /\ SubSeq(k, 1, Len(last.at.workspace)) = last.at.workspace
           /\ (k = last.at.workspace
                  \/ k[Len(last.at.workspace) + 1] = last.at.sep) )
         => k \notin DOMAIN last.out.dir

\* C36: toggleChecked(D) on a directory sets the stored bit of D to the
\* negation of that bit and gives the new value to the eligible
\* descendants, whatever verdict is displayed for D: displayed `all` with
\* the bit false it is checked and the descendants stay checked, displayed
\* `partial` or `none` with the bit true all eligible descendants are
\* unchecked.
C36_ToggleFollowsBit ==
  (Completed({"toggle"}) /\ ~task.tripped /\ Cardinality(task.visited) <= MaxVisited)
    => LET D == task.target
           shown == Verdict(world, task.pre, D)
           below == {x \in Descendants(world, D) : EligibleBelow(world, D, x)}
       IN  /\ IsChecked(checkedItems, D) = ~IsChecked(task.pre, D)
           /\ (shown = "all" /\ ~IsChecked(task.pre, D))
                => IsChecked(checkedItems, D)
                   /\ \A x \in below : Bit(checkedItems, x) = "true"
           /\ (shown \in {"partial", "none"} /\ IsChecked(task.pre, D))
                => ~IsChecked(checkedItems, D)
                   /\ \A x \in below : Bit(checkedItems, x) = "false"

C36_Witness ==
  /\ Completed({"toggle"})
  /\ Verdict(world, task.pre, task.target) = "partial"
  /\ IsChecked(task.pre, task.target)
  /\ ~IsChecked(checkedItems, task.target)
  /\ \E x \in Descendants(world, task.target) :
       EligibleBelow(world, task.target, x) /\ IsChecked(task.pre, x)

\* C39: updateView(element) calls that each arrive within 50 ms of the
\* previous one produce one change notification, fired 50 ms after the
\* last of them; the pending set is empty once it has fired; and once
\* the calls stop the notification is eventually fired.
C39_Debounced ==
  /\ [](last.op = "debounced" =>
          /\ last.fired = 1
          /\ pendingUpdates = {}
          /\ last.calledAt >= 0
          /\ now = last.calledAt + debounceMs)
  /\ [][last'.op = "debounced" => pendingUpdates # {} /\ last.op # "debounced"]_vars
  /\ (pendingUpdates # {} ~> (last.op = "debounced" /\ pendingUpdates = {}))

C39_Witness ==
  /\ last.op = "debounced"
  /\ last.first >= 0
  /\ last.calledAt > last.first
  /\ last.calledAt - last.first < debounceMs

C33_ListedStateIsStoredBit ==
  last.op = "getChildren" =>
    \A i \in 1..Len(last.items) :
      last.items[i].contextValue =
        (IF last.items[i].p \in DOMAIN checkedItems /\ checkedItems[last.items[i].p]
         THEN "checked" ELSE "unchecked")

\* the same without a query: every listing is computed from the store
C33_UnfilteredListedState == searchQuery = "" => C33_ListedStateIsStoredBit

\* the text has the piece at position j, letter case apart
PieceAt(piece, text, j) ==
  /\ j + Len(piece) - 1 <= Len(text)
  /\ \A k \in 1..Len(piece) : Lower(text[j + k - 1]) = Lower(piece[k])

\* the pieces of the pattern between its stars, from position i on
RECURSIVE Pieces(_, _, _)
Pieces(pat, i, piece) ==
  IF i > Len(pat) THEN <<piece>>
  ELSE IF pat[i] = "*" THEN <<piece>> \o Pieces(pat, i + 1, <<>>)
  ELSE Pieces(pat, i + 1, Append(piece, pat[i]))

\* the pieces occur in the text one after the other, any run between them
RECURSIVE PiecesFollow(_, _, _, _)
PiecesFollow(ps, k, text, from) ==
  IF k > Len(ps) THEN TRUE
  ELSE IF k = 1
       THEN PieceAt(ps[1], text, from) /\ PiecesFollow(ps, 2, text, from + Len(ps[1]))
       ELSE \E j \in from..(Len(text) + 1) :
              PieceAt(ps[k], text, j) /\ PiecesFollow(ps, k + 1, text, j + Len(ps[k]))

PatternFound(q, text) ==
  \E j \in 1..(Len(text) + 1) : PiecesFollow(Pieces(Chars(q), 1, <<>>), 1, text, j)

QueryHasSeparator(q) == \E i \in 1..Len(Chars(q)) : Chars(q)[i] = "/"

NameOrPathMatches(q, p) ==
  q = "" \/ PatternFound(q, IF QueryHasSeparator(q) THEN RelativePath(p)
                            ELSE Chars(Last(p)))

ListingMatch(w, q, p) ==
  \/ NameOrPathMatches(q, p)
  \/ /\ IsDirectory(w, p)
     /\ \E f \in PathsBelow(w, p, MaxPathLen) :
          ~IsDirectory(w, f) /\ NotIgnoredBelow(w, p, f)
          /\ NameOrPathMatches(q, f)

ListedPaths == {last.items[i].p : i \in 1..Len(last.items)}

C37_WitnessContainer ==
  /\ last.op = "getChildren"
  /\ searchQuery = "*.ts"
  /\ world.root = FsHollow.root
  /\ <<"pkg", "fat">> \in ListedPaths

\* C32: the filtered listing is cached only while a query is active, and
\* after a query change getChildren never returns a listing computed, in
\* whole or in part, under an earlier query, a listing whose computation
\* was suspended when the query changed included: what it returns is the
\* listing under the query in force.
C32_ListingUnderCurrentQuery ==
  /\ searchQuery = "" => filteredFileCache = EmptyMap
  /\ last.op = "getChildren" =>
       LET fresh == getFilesInDirectory(world, checkedItems, cache, EmptyMap,
                                        searchQuery, last.arg, now).items
       IN  ListedPaths = {fresh[i].p : i \in 1..Len(fresh)}

\* a propagation run to its end with nothing in between
RECURSIVE RunToEnd(_)
RunToEnd(r) ==
  IF r.tk.status = "run" THEN RunToEnd(Resume(world, searchQuery, r, now)) ELSE r

\* the store after toggleChecked of p has run alone on the store ci
ToggledAlone(ci, p) ==
  LET b   == ~(p \in DOMAIN ci /\ ci[p])
      ci1 == Put(ci, p, b)
  IN  IF IsDirectory(world, p)
      THEN RunToEnd(EnterDirectory([ci |-> ci1, c |-> EmptyCache,
                                    tk |-> NewTask("toggle", p, b)], p)).ci
      ELSE ci1

FirstAlone(ci) == ToggledAlone(ci, task.target)

SecondAlone(ci) ==
  IF second.op = "uncheckAll" THEN uncheckAll(ci) ELSE ToggledAlone(ci, second.tk.target)

BothFinished ==
  task.status = "done" /\ second.op # "none" /\ second.tk.status # "run"

\* C31: when a mutating operation is issued while the propagation of an
\* earlier toggle is suspended, the store reached after both have finished
\* is the store of the two operations run one after the other, in one of
\* the two orders, from the store the earlier one started on.
C31_Serializable ==
  BothFinished =>
    Checked(checkedItems) \in {Checked(SecondAlone(FirstAlone(task.pre))),
                               Checked(FirstAlone(SecondAlone(task.pre)))}

\* the claim's example: two overlapping toggles of the same directory leave
\* its eligible descendants with one bit
C31_SameDirectorySameBit ==
  (BothFinished /\ second.op = "toggle" /\ second.tk.target = task.target) =>
    \A x, y \in {z \in Descendants(world, task.target) :
                   EligibleBelow(world, task.target, z)} :
      (x \in Checked(checkedItems)) = (y \in Checked(checkedItems))

====
